---- MODULE Spec2Model ----
(***************************************************************************)
(* Verification model of the gong-mcp gateway.                             *)
(*                                                                         *)
(*  - Access-Control Engine: app/services/security.py (MCPSecurityService) *)
(*    over the tables of app/models/security.py, checked under Spec.       *)
(*  - Authorization-code exchange: app/routes/auth.py (/login, /token)     *)
(*    over the Redis code store, checked under AuthSpec (one server        *)
(*    process: a handler's Redis calls run without interleaving) and under *)
(*    AuthConcSpec (several server processes sharing the Redis store: GET  *)
(*    and DELETE are two separate commands), under AuthTimedSpec (the      *)
(*    time to live of the stored codes) and under AuthKeySpec (with the    *)
(*    API-key exchange /auth/token of app/services/auth.py).               *)
(*  - Middleware stack and tools: app/middleware.py, app/server.py and     *)
(*    app/gong_mcp.py, checked under GateSpec.                             *)
(*  - The Access-Control Engine in concurrent database sessions:           *)
(*    get_or_create_mcp_user under CreateConcSpec, access_control under    *)
(*    AccessConcSpec (one step per database round trip).                   *)
(*  - The liveness of the quota state machine under QuotaLiveSpec.         *)
(*  - Session tokens over their validity (app/services/auth.py) under      *)
(*    VerifySpec; /login and /token while the rows of the users tables     *)
(*    change under DirectorySpec; /register under RegisterSpec.            *)
(*                                                                         *)
(* Time is counted in ticks; a day has TicksPerDay ticks.  datetime.now()  *)
(* is strictly increasing from one service call to the next (every call    *)
(* awaits at least one database round trip), and the clock reads inside    *)
(* one call are taken at the same tick.                                    *)
(***************************************************************************)
EXTENDS Integers, Sequences, FiniteSets, TLC

VARIABLES
    now,                \* datetime.now() of the latest service call
    mcp_user,           \* table mcp_user, keyed by the unique column email
    mcp_user_activity,  \* table mcp_user_activity, in insertion order
    last,               \* the latest service call: arguments, state before, result
    redis,              \* the keys auth_code:<code> of the Redis store
    issued,             \* how many codes /login has generated
    minted,             \* the session tokens minted, in order, with the time of each
    redeemed,           \* the codes some /token request has read from Redis
    resp,               \* the latest HTTP response, with its request
    proc,               \* the /token request each server process is handling
    clock,              \* the time of the Redis server, in seconds
    expires_at,         \* the expiry time SETEX gave each key auth_code:<code>
    gate,               \* the latest request through the middleware stack, and its outcome
    tool,               \* the latest tool invocation on the forwarded request
    mcp_user_rows,      \* table mcp_user as its rows in commit order, under concurrent sessions
    call,               \* the service call each concurrent session is running
    users,              \* table users, with the groups and the permissions of each row
    oauth_user_mcp,     \* table oauth_user_mcp, in insertion order
    retry               \* the run of retry_with_backoff: its arguments, locals and outcome

quotaVars == <<now, mcp_user, mcp_user_activity, last>>

timeVars == <<clock, expires_at>>

dbVars == <<users, oauth_user_mcp>>

authVars == <<redis, issued, minted, redeemed, resp, proc, clock, expires_at, users,
              oauth_user_mcp>>

gateVars == <<gate, tool>>

raceVars == <<mcp_user_rows, call>>

vars == <<now, mcp_user, mcp_user_activity, last, redis, issued, minted, redeemed, resp, proc,
          clock, expires_at, gate, tool, mcp_user_rows, call, users, oauth_user_mcp,
          retry>>

(***************************************************************************)
(* Bounds of the model.                                                    *)
(***************************************************************************)
TicksPerDay == 5
MaxTime == 10
MaxCompany == 4
\* the tier tables of app/constants.py, scaled down (30 per 7 days, 100 ever)
TierLimit == 2
TierDays == 1
TierTotal == 3
\* authorization codes issued in one behaviour, and server processes
MaxCodes == 2
NumProcs == 2
\* the seconds one step of the Redis clock takes, and the last second modelled
TickSeconds == 300
MaxClock == 900
\* session tokens minted for API keys in one behaviour
MaxKeyTokens == 1
\* the rows of oauth_user_mcp in one behaviour
MaxClients == 4
\* the seconds one step takes on the scale of a token's validity (half of the
\* 7 days), and the last second modelled on that scale
TokenTick == 302400
MaxTokenClock == 1209600
\* the largest max_retries a run of retry_with_backoff is given, and the
\* max_backoff and the timeout it is given (seconds)
MaxRetries == 3
MaxBackoff == 5
RetryTimeout == 6

Companies == 1..MaxCompany
Procs == 1..NumProcs
MaxStep == TierDays * TicksPerDay + 1

NoRow == [id |-> 0]
NoCall == [op |-> "none"]

Emails == {"ana@daloopa.com", "bob@example.com"}
InternalEmails == {"ana@daloopa.com"}
TierArgs == {"trial", "enterprise"}

(***************************************************************************)
(* Python helpers.                                                         *)
(***************************************************************************)
\* str.endswith, an off-by-one in the slice: compares a suffix one shorter
endswith_short(s, suffix) ==
    /\ Len(s) >= Len(suffix)
    /\ SubSeq(s, Len(s) - Len(suffix) + 2, Len(s)) = suffix

endswith(s, suffix) ==
    /\ Len(s) >= Len(suffix)
    /\ SubSeq(s, Len(s) - Len(suffix) + 1, Len(s)) = suffix

upper(s) ==
    CASE s = "trial" -> "TRIAL"
      [] s = "enterprise" -> "ENTERPRISE"
      [] s = "student" -> "STUDENT"
      [] s = "free" -> "FREE"
      [] OTHER -> s

\* timedelta(days=d), in ticks
timedelta(d) == d * TicksPerDay

\* timedelta.days: whole days, rounded towards minus infinity
timedelta_days(delta) == delta \div TicksPerDay

max(a, b) == IF a >= b THEN a ELSE b

(***************************************************************************)
(* app/constants.py                                                        *)
(***************************************************************************)
TierNames == {"FREE", "TRIAL", "STUDENT", "ENTERPRISE"}

TIER_TIME_LIMITS == [t \in TierNames |-> [limit |-> TierLimit, days |-> TierDays]]

TIER_TOTAL_LIMITS == [t \in TierNames |-> TierTotal]

(***************************************************************************)
(* Queries of MCPSecurityService over mcp_user_activity.                   *)
(***************************************************************************)
\* the rows of the activity table of one user
RowsOf(activity, user_id) ==
    {i \in 1..Len(activity) : activity[i].user_id = user_id}

\* count(distinct(accessed_company)) over a set of row indexes
CountDistinct(activity, rows) ==
    Cardinality({activity[i].accessed_company : i \in rows})

\* a lookup with user_id and company_id passed in each other's place
_already_accessed_swapped(user_id, company_id, activity) ==
    \E i \in RowsOf(activity, company_id) : activity[i].accessed_company = user_id

\* a lookup that only inspects the newest row of the user
_already_accessed_newest(user_id, company_id, activity) ==
    \E i \in RowsOf(activity, user_id) :
        /\ activity[i].accessed_company = company_id
        /\ \A j \in RowsOf(activity, user_id) : j <= i

_already_accessed_company(user_id, company_id, activity) ==
    \E i \in RowsOf(activity, user_id) : activity[i].accessed_company = company_id

\* the window count compared with > instead of >=
_is_limit_reached_gt(user_id, unblock_time, days, limit, activity, t) ==
    LET window_start == max(unblock_time, t - timedelta(days))
        count == CountDistinct(activity,
                    {i \in RowsOf(activity, user_id) : activity[i].timestamp >= window_start})
    IN  count > limit

\* the window without the rows stamped exactly at window_start
_is_limit_reached_open(user_id, unblock_time, days, limit, activity, t) ==
    LET window_start == max(unblock_time, t - timedelta(days))
        count == CountDistinct(activity,
                    {i \in RowsOf(activity, user_id) : activity[i].timestamp > window_start})
    IN  count >= limit

_is_limit_reached(user_id, unblock_time, days, limit, activity, t) ==
    LET window_start == max(unblock_time, t - timedelta(days))
        count == CountDistinct(activity,
                    {i \in RowsOf(activity, user_id) : activity[i].timestamp >= window_start})
    IN  count >= limit

\* the lifetime count compared with > instead of >=
is_total_limit_reached_gt(user, activity) ==
    CountDistinct(activity, RowsOf(activity, user.id)) > user.total_limit

is_total_limit_reached(user, activity) ==
    CountDistinct(activity, RowsOf(activity, user.id)) >= user.total_limit

\* the elapsed time compared without the conversion to whole days
_should_auto_unblock_ticks(user, days, t) ==
    IF user.status # "BLOCKED" THEN FALSE
    ELSE (t - user.unblocked_at) >= days

\* the elapsed days compared with > instead of >=
_should_auto_unblock_gt(user, days, t) ==
    IF user.status # "BLOCKED" THEN FALSE
    ELSE timedelta_days(t - user.unblocked_at) > days

_should_auto_unblock(user, days, t) ==
    IF user.status # "BLOCKED" THEN FALSE
    ELSE timedelta_days(t - user.unblocked_at) >= days

\* the unblock that restarts the window and leaves the status as it was
_unblock_user_keep(user, t) == [user EXCEPT !.unblocked_at = t]

_unblock_user(user, t) == [user EXCEPT !.status = "FREE", !.unblocked_at = t]

_block_user_restart(user, t) ==
    [user EXCEPT !.status = "BLOCKED", !.blocked_at = t, !.unblocked_at = t]

_block_user(user, t) == [user EXCEPT !.status = "BLOCKED", !.blocked_at = t]

_log_access(user_id, company_id, activity, t) ==
    Append(activity, [user_id |-> user_id, accessed_company |-> company_id, timestamp |-> t])

(***************************************************************************)
(* The messages of access_control.  A tick is a whole number of minutes,   *)
(* so strftime("%Y-%m-%d %H:%M") prints an unblock time without loss.      *)
(***************************************************************************)
MsgInternal == <<"Access granted for internal Daloopa users.">>
MsgTotal == <<"Total limit reached for the user.">>
MsgBlocked(unblock_time) ==
    <<"User is blocked. Limit will be reset automatically at ", unblock_time, " UTC.">>
MsgNone == <<"">>

Result(allowed, message, user, activity) ==
    [allowed |-> allowed, message |-> message, user |-> user, activity |-> activity]

\* access_control with the lookup of the company ahead of the lifetime limit
access_control_repeat_first(user, company_id, activity, t) ==
    LET tier_config == TIER_TIME_LIMITS[user.tier]
        limit == tier_config.limit
        days == tier_config.days
    IN
    IF endswith(user.email, "@daloopa.com")
    THEN Result(TRUE, MsgInternal, user, activity)
    ELSE IF _already_accessed_company(user.id, company_id, activity)
    THEN Result(TRUE, MsgNone, user, activity)
    ELSE IF is_total_limit_reached(user, activity)
    THEN Result(FALSE, MsgTotal, user, activity)
    ELSE
    LET u1 == IF _should_auto_unblock(user, days, t) THEN _unblock_user(user, t) ELSE user
    IN
    IF u1.status = "BLOCKED"
    THEN Result(FALSE, MsgBlocked(u1.unblocked_at + timedelta(days)), u1, activity)
    ELSE IF _is_limit_reached(u1.id, u1.unblocked_at, days, limit, activity, t)
    THEN LET u2 == _block_user(u1, t)
         IN  Result(FALSE, MsgBlocked(u2.unblocked_at + timedelta(days)), u2, activity)
    ELSE Result(TRUE, MsgNone, u1, _log_access(u1.id, company_id, activity, t))

\* access_control(user, company_id) called at time t on the activity table
access_control(user, company_id, activity, t) ==
    LET tier_config == TIER_TIME_LIMITS[user.tier]
        limit == tier_config.limit
        days == tier_config.days
    IN
    IF endswith(user.email, "@daloopa.com")
    THEN Result(TRUE, MsgInternal, user, activity)
    ELSE IF is_total_limit_reached(user, activity)
    THEN Result(FALSE, MsgTotal, user, activity)
    ELSE
    LET u1 == IF _should_auto_unblock(user, days, t) THEN _unblock_user(user, t) ELSE user
    IN
    IF _already_accessed_company(u1.id, company_id, activity)
    THEN Result(TRUE, MsgNone, u1, activity)
    ELSE IF u1.status = "BLOCKED"
    THEN Result(FALSE, MsgBlocked(u1.unblocked_at + timedelta(days)), u1, activity)
    ELSE IF _is_limit_reached(u1.id, u1.unblocked_at, days, limit, activity, t)
    THEN LET u2 == _block_user(u1, t)
         IN  Result(FALSE, MsgBlocked(u2.unblocked_at + timedelta(days)), u2, activity)
    ELSE Result(TRUE, MsgNone, u1, _log_access(u1.id, company_id, activity, t))

(***************************************************************************)
(* The service calls.                                                      *)
(***************************************************************************)
\* the company ids a call is made with: any company the user has already
\* accessed, and the smallest company id not in the table (company ids are
\* only compared for equality, so one unseen id stands for all of them)
CompanyInputs(activity) ==
    LET seen == {activity[i].accessed_company : i \in 1..Len(activity)}
        unseen == Companies \ seen
    IN  seen \cup {c \in unseen : \A d \in unseen : c <= d}

_create_mcp_user(email, tier, t) ==
    [id |-> Cardinality({e \in Emails : mcp_user[e] # NoRow}) + 1,
     email |-> email,
     tier |-> upper(tier),
     total_limit |-> TIER_TOTAL_LIMITS[upper(tier)],
     status |-> "FREE",
     created_at |-> t,
     unblocked_at |-> t,
     blocked_at |-> t]

\* get_or_create that writes a new row over the one it found
get_or_create_mcp_user_upsert(table, email, tier, t) ==
    LET user == _create_mcp_user(email, tier, t)
    IN  [table |-> [table EXCEPT ![email] = user], user |-> user]

\* get_or_create_mcp_user(email, tier) at time t: the table after the call
\* and the row returned
get_or_create_mcp_user(table, email, tier, t) ==
    LET user == table[email]
    IN  IF user # NoRow THEN [table |-> table, user |-> user]
        ELSE LET created == _create_mcp_user(email, tier, t)
             IN  [table |-> [table EXCEPT ![email] = created], user |-> created]

\* get_or_create_mcp_user(email, tier), run without interleaving
GetOrCreateMcpUser(email, tier, dt) ==
    /\ now + dt <= MaxTime
    /\ now' = now + dt
    /\ LET r == get_or_create_mcp_user(mcp_user, email, tier, now + dt)
       IN  /\ mcp_user' = r.table
           /\ last' = [op |-> "get_or_create_mcp_user", email |-> email, tier |-> tier,
                       at |-> now + dt, existed |-> mcp_user[email] # NoRow,
                       pre |-> mcp_user[email],
                       pre_rows |-> Cardinality({e \in Emails : mcp_user[e] # NoRow}),
                       ret |-> r.user]
    /\ UNCHANGED mcp_user_activity
    /\ UNCHANGED authVars
    /\ UNCHANGED gateVars
    /\ UNCHANGED raceVars
    /\ UNCHANGED retry

\* access_control(user, company_id) on the row of email, run without interleaving
AccessControl(email, company_id, dt) ==
    /\ mcp_user[email] # NoRow
    /\ now + dt <= MaxTime
    /\ LET r == access_control(mcp_user[email], company_id, mcp_user_activity, now + dt)
       IN  /\ now' = now + dt
           /\ mcp_user' = [mcp_user EXCEPT ![email] = r.user]
           /\ mcp_user_activity' = r.activity
           /\ last' = [op |-> "access_control", email |-> email, company_id |-> company_id,
                       at |-> now + dt, pre |-> mcp_user[email],
                       pre_len |-> Len(mcp_user_activity),
                       allowed |-> r.allowed, message |-> r.message]
    /\ UNCHANGED authVars
    /\ UNCHANGED gateVars
    /\ UNCHANGED raceVars
    /\ UNCHANGED retry

(***************************************************************************)
(* get_or_create_mcp_user in concurrent sessions: every await is a step.   *)
(***************************************************************************)
IdleCall == [pc |-> "idle"]

\* a table without the unique index on email
unique_email_off(rows, email) == TRUE

\* the unique index on mcp_user.email: may a row with this email be committed
unique_email(rows, email) == \A i \in 1..Len(rows) : rows[i].email # email

\* _get_mcp_user on the rows of the table: scalar_one_or_none
_get_mcp_user(rows, email) ==
    LET hits == {i \in 1..Len(rows) : rows[i].email = email}
    IN  IF hits = {} THEN NoRow ELSE rows[CHOOSE i \in hits : TRUE]

\* get_or_create_mcp_user, line 18: the SELECT of _get_mcp_user
CreateGet(p, email, tier) ==
    /\ call[p].pc = "idle"
    /\ LET user == _get_mcp_user(mcp_user_rows, email)
       IN  call' = [call EXCEPT ![p] = [pc |-> IF user = NoRow THEN "create" ELSE "return",
                                        email |-> email, tier |-> tier, user |-> user]]
    /\ UNCHANGED mcp_user_rows
    /\ UNCHANGED quotaVars
    /\ UNCHANGED authVars
    /\ UNCHANGED gateVars
    /\ UNCHANGED retry

\* _create_mcp_user: the INSERT is committed, or the commit raises
\* IntegrityError, the session rolls back and the call returns None
CreateCommit(p) ==
    /\ call[p].pc = "create"
    /\ LET user == [_create_mcp_user(call[p].email, call[p].tier, now)
                        EXCEPT !.id = Len(mcp_user_rows) + 1]
       IN  IF unique_email(mcp_user_rows, call[p].email)
           THEN /\ mcp_user_rows' = Append(mcp_user_rows, user)
                /\ call' = [call EXCEPT ![p].pc = "return", ![p].user = user]
           ELSE /\ mcp_user_rows' = mcp_user_rows
                /\ call' = [call EXCEPT ![p].pc = "return", ![p].user = NoRow]
    /\ UNCHANGED quotaVars
    /\ UNCHANGED authVars
    /\ UNCHANGED gateVars
    /\ UNCHANGED retry

\* get_or_create_mcp_user, line 21: the caller receives user
CreateReturn(p) ==
    /\ call[p].pc = "return"
    /\ call' = [call EXCEPT ![p] = IdleCall]
    /\ UNCHANGED mcp_user_rows
    /\ UNCHANGED quotaVars
    /\ UNCHANGED authVars
    /\ UNCHANGED gateVars
    /\ UNCHANGED retry

(***************************************************************************)
(* access_control in concurrent sessions: every database round trip is a   *)
(* step.  A session works on the MCPUser object it loaded                  *)
(* (expire_on_commit=False: a commit of another session does not refresh   *)
(* it) and a commit writes the attributes the session changed.             *)
(***************************************************************************)
ConcEmails == {"bob@example.com"}
ConcTiers == {"trial"}
\* the clock steps of the calls between the concurrent ones: a subject is
\* created one tick after the start, later the clock moves past a whole
\* window at a time (the calls inside a window run at the same tick)
ConcSteps(email) == IF mcp_user[email] = NoRow THEN {1} ELSE {MaxStep}

\* the company ids of concurrent calls: the logged ones, the ones of the
\* calls in flight, and the smallest id that is neither
ConcCompanyInputs ==
    LET seen == {mcp_user_activity[i].accessed_company : i \in 1..Len(mcp_user_activity)}
        flying == {call[p].company_id : p \in {q \in Procs : call[q].pc # "idle"}}
        unseen == Companies \ (seen \cup flying)
    IN  seen \cup flying \cup {c \in unseen : \A d \in unseen : c <= d}

Returning(c, allowed, message) ==
    [c EXCEPT !.pc = "return", !.allowed = allowed, !.message = message]

\* the caller passes the MCPUser it loaded; lines 48-53
AcBegin(p, email, company_id) ==
    /\ call[p].pc = "idle"
    /\ mcp_user[email] # NoRow
    /\ LET c == [pc |-> "total", email |-> email, company_id |-> company_id,
                 user |-> mcp_user[email], allowed |-> FALSE, message |-> MsgNone,
                 blocked_over |-> "none"]
       IN  call' = [call EXCEPT ![p] =
                       IF endswith(email, "@daloopa.com")
                       THEN Returning(c, TRUE, MsgInternal) ELSE c]
    /\ UNCHANGED <<mcp_user_rows, quotaVars>>
    /\ UNCHANGED authVars
    /\ UNCHANGED gateVars
    /\ UNCHANGED retry

\* lines 55-58: the SELECT of is_total_limit_reached, then _should_auto_unblock
AcTotal(p) ==
    /\ call[p].pc = "total"
    /\ LET user == call[p].user
           days == TIER_TIME_LIMITS[user.tier].days
       IN  call' = [call EXCEPT ![p] =
                       IF is_total_limit_reached(user, mcp_user_activity)
                       THEN Returning(call[p], FALSE, MsgTotal)
                       ELSE IF _should_auto_unblock(user, days, now)
                       THEN [call[p] EXCEPT !.pc = "unblock"]
                       ELSE [call[p] EXCEPT !.pc = "seen"]]
    /\ UNCHANGED <<mcp_user_rows, quotaVars>>
    /\ UNCHANGED authVars
    /\ UNCHANGED gateVars
    /\ UNCHANGED retry

\* line 59: _unblock_user commits status and unblocked_at
AcUnblock(p) ==
    /\ call[p].pc = "unblock"
    /\ call' = [call EXCEPT ![p].pc = "seen", ![p].user = _unblock_user(call[p].user, now)]
    /\ mcp_user' = [mcp_user EXCEPT ![call[p].email].status = "FREE",
                                    ![call[p].email].unblocked_at = now]
    /\ UNCHANGED <<mcp_user_rows, now, mcp_user_activity, last>>
    /\ UNCHANGED authVars
    /\ UNCHANGED gateVars
    /\ UNCHANGED retry

\* lines 61-66: the SELECT of _already_accessed_company, then the status test
AcSeen(p) ==
    /\ call[p].pc = "seen"
    /\ LET user == call[p].user
           days == TIER_TIME_LIMITS[user.tier].days
       IN  call' = [call EXCEPT ![p] =
                       IF _already_accessed_company(user.id, call[p].company_id,
                                                    mcp_user_activity)
                       THEN Returning(call[p], TRUE, MsgNone)
                       ELSE IF user.status = "BLOCKED"
                       THEN Returning(call[p], FALSE,
                                      MsgBlocked(user.unblocked_at + timedelta(days)))
                       ELSE [call[p] EXCEPT !.pc = "limit"]]
    /\ UNCHANGED <<mcp_user_rows, quotaVars>>
    /\ UNCHANGED authVars
    /\ UNCHANGED gateVars
    /\ UNCHANGED retry

\* line 68: the SELECT of _is_limit_reached
AcLimit(p) ==
    /\ call[p].pc = "limit"
    /\ LET user == call[p].user
           tier_config == TIER_TIME_LIMITS[user.tier]
       IN  call' = [call EXCEPT ![p].pc =
                       IF _is_limit_reached(user.id, user.unblocked_at, tier_config.days,
                                            tier_config.limit, mcp_user_activity, now)
                       THEN "block" ELSE "log"]
    /\ UNCHANGED <<mcp_user_rows, quotaVars>>
    /\ UNCHANGED authVars
    /\ UNCHANGED gateVars
    /\ UNCHANGED retry

\* lines 69-71: _block_user commits status and blocked_at; blocked_over is
\* the status the row had in the table when the commit arrived
AcBlock(p) ==
    /\ call[p].pc = "block"
    /\ LET user == _block_user(call[p].user, now)
           days == TIER_TIME_LIMITS[user.tier].days
       IN  call' = [call EXCEPT ![p] =
                       [Returning(call[p], FALSE,
                                  MsgBlocked(user.unblocked_at + timedelta(days)))
                           EXCEPT !.user = user,
                                  !.blocked_over = mcp_user[call[p].email].status]]
    /\ mcp_user' = [mcp_user EXCEPT ![call[p].email].status = "BLOCKED",
                                    ![call[p].email].blocked_at = now]
    /\ UNCHANGED <<mcp_user_rows, now, mcp_user_activity, last>>
    /\ UNCHANGED authVars
    /\ UNCHANGED gateVars
    /\ UNCHANGED retry

\* lines 73-74: _log_access commits the activity row
AcLog(p) ==
    /\ call[p].pc = "log"
    /\ mcp_user_activity' =
          _log_access(call[p].user.id, call[p].company_id, mcp_user_activity, now)
    /\ call' = [call EXCEPT ![p] = Returning(call[p], TRUE, MsgNone)]
    /\ UNCHANGED <<mcp_user_rows, now, mcp_user, last>>
    /\ UNCHANGED authVars
    /\ UNCHANGED gateVars
    /\ UNCHANGED retry

\* the caller receives (allowed, message)
AcReturn(p) ==
    /\ call[p].pc = "return"
    /\ "company_id" \in DOMAIN call[p]
    /\ call' = [call EXCEPT ![p] = IdleCall]
    /\ UNCHANGED <<mcp_user_rows, quotaVars>>
    /\ UNCHANGED authVars
    /\ UNCHANGED gateVars
    /\ UNCHANGED retry

(***************************************************************************)
(* Authorization flow: app/routes/auth.py, app/services/auth.py and        *)
(* app/services/user.py.                                                   *)
(***************************************************************************)
Codes == 1..MaxCodes

Nil == [nil |-> TRUE]
NoResponse == [op |-> "none"]
Idle == [pc |-> "idle"]

\* an optional form field that was not sent (Form(None))
None == "None"

\* the truth value Python gives an optional string
truthy(x) == x # None /\ x # ""

\* str.startswith
startswith(s, prefix) ==
    /\ Len(s) >= Len(prefix)
    /\ SubSeq(s, 1, Len(prefix)) = prefix

\* str.rstrip(ch) for a one-character ch
RECURSIVE rstrip(_, _)
rstrip(s, ch) ==
    IF Len(s) > 0 /\ SubSeq(s, Len(s), Len(s)) = ch
    THEN rstrip(SubSeq(s, 1, Len(s) - 1), ch)
    ELSE s

\* the rows of oauth_user_mcp when the server starts
OAuthClients ==
    <<[client_id |-> "cid1", client_secret |-> "sec1", client_name |-> "Claude"],
      [client_id |-> "cid2", client_secret |-> "sec2", client_name |-> "Cursor"]>>

\* scalar_one_or_none raises when the query matches more than one row
MultipleResultsFound == [raised |-> "MultipleResultsFound"]

get_oauth_client(client_id) ==
    LET rows == {i \in 1..Len(oauth_user_mcp) : oauth_user_mcp[i].client_id = client_id}
    IN  IF rows = {} THEN Nil
        ELSE IF Cardinality(rows) > 1 THEN MultipleResultsFound
        ELSE oauth_user_mcp[CHOOSE i \in rows : TRUE]

\* django_pbkdf2_sha256 of a raw password
pbkdf2(raw_password) == <<"pbkdf2_sha256", raw_password>>

\* the rows of users when the server starts, with the group names and the
\* permission codenames of each
Users ==
    {[email |-> "bob@example.com", password |-> pbkdf2("pw"), is_active |-> TRUE,
      groups |-> <<"staff", "user_type:enterprise_trial">>, permissions |-> {"has_mcp_access"}],
     [email |-> "dan@example.com", password |-> pbkdf2("pw"), is_active |-> TRUE,
      groups |-> <<"staff">>, permissions |-> {"has_mcp_access"}],
     [email |-> "eve@example.com", password |-> pbkdf2("pw"), is_active |-> TRUE,
      groups |-> <<"user_type:free">>, permissions |-> {}],
     [email |-> "ian@example.com", password |-> pbkdf2("pw"), is_active |-> FALSE,
      groups |-> <<"user_type:student">>, permissions |-> {"has_mcp_access"}]}

get_user(email) ==
    LET rows == {u \in users : u.email = email}
    IN  IF rows = {} THEN Nil ELSE CHOOSE u \in rows : TRUE

check_password(user, raw_password) == pbkdf2(raw_password) = user.password

\* validate_password that leaves an unknown email to the later checks
validate_password_known_only(email, password) ==
    LET user == get_user(email)
    IN  IF user = Nil THEN TRUE ELSE check_password(user, password)

validate_password(email, password) ==
    LET user == get_user(email)
    IN  IF user = Nil THEN FALSE ELSE check_password(user, password)

\* the permission query without the condition on is_active
has_mcp_access_any(email) ==
    \E u \in users :
        /\ u.email = email
        /\ "has_mcp_access" \in u.permissions

has_mcp_access(email) ==
    \E u \in users :
        /\ u.email = email
        /\ u.is_active
        /\ "has_mcp_access" \in u.permissions

\* get_user_tier: user_type is bound by the loop over the group names only
\* when a name starts with "user_type:"; reading it unbound raises
default_tier == "enterprise"

get_user_tier(email) ==
    LET user == get_user(email)
    IN
    IF user = Nil THEN [raised |-> FALSE, tier |-> default_tier]
    ELSE
    LET hits == {i \in 1..Len(user.groups) : startswith(user.groups[i], "user_type:")}
    IN
    IF hits = {} THEN [raised |-> TRUE]
    ELSE
    LET group == user.groups[CHOOSE i \in hits : \A j \in hits : j <= i]
        user_type == SubSeq(group, Len("user_type:") + 1, Len(group))
    IN  [raised |-> FALSE,
         tier |-> CASE user_type = "enterprise_trial" -> "trial"
                    [] user_type = "student" -> "student"
                    [] user_type = "free" -> "free"
                    [] OTHER -> default_tier]

\* hashlib.sha256(...).digest() of the verifiers of the model
sha256(code_verifier) ==
    CASE code_verifier = "v1" -> "D1"
      [] code_verifier = "v2" -> "D2"
      [] OTHER -> "D0"

\* base64.urlsafe_b64encode of a 32-byte digest ends in one padding character
urlsafe_b64encode(digest) == digest \o "="

\* the challenge computed without stripping the padding
pkce_challenge_padded(code_verifier) == urlsafe_b64encode(sha256(code_verifier))

\* the challenge /token computes from a code_verifier
pkce_challenge(code_verifier) == rstrip(urlsafe_b64encode(sha256(code_verifier)), "=")

json_dumps(data) == [json |-> data]
json_loads(val) == val.json

\* the default expires_in of store_auth_code, in seconds
expires_in == 600

\* SETEX: the key expires expires_in seconds after time t
setex_expiry(expiry, code, t) == [expiry EXCEPT ![code] = t + expires_in]

\* a key that stays readable one more clock step after its expiry time
key_expired_late(expiry, code, t) == t > expiry[code] + TickSeconds

\* Redis reads a key as absent once the time is past its expiry time
key_expired(expiry, code, t) == t > expiry[code]

\* store_auth_code: SETEX auth_code:<code>
store_auth_code(store, code, data) == [store EXCEPT ![code] = json_dumps(data)]

\* get_auth_code that reads the key and leaves it in the store
get_auth_code_keep(store, code) ==
    LET val == store[code]
    IN  IF val # Nil THEN [data |-> json_loads(val), store |-> store]
        ELSE [data |-> Nil, store |-> store]

\* get_auth_code: GET auth_code:<code>, and DEL when it was found
get_auth_code(store, code) ==
    LET val == store[code]
    IN  IF val # Nil THEN [data |-> json_loads(val), store |-> [store EXCEPT ![code] = Nil]]
        ELSE [data |-> Nil, store |-> store]

\* the validity of a session token, in seconds (7 days)
JWT_VALIDITY == 604800

\* the claims create_access_token signs; time.time() is the clock, in seconds
create_access_token(email, tier, origin) ==
    [sub |-> email, tier |-> tier, origin |-> origin, exp |-> clock + JWT_VALIDITY]

HTTPException(status, detail) == [status |-> status, detail |-> detail]

\* /token that asks for a code_verifier whenever a challenge was stored
token_checks_pkce_required(data, req) ==
    IF data = Nil
    THEN HTTPException(400, "Invalid or expired code")
    ELSE IF data.client_id # req.client_id
    THEN HTTPException(400, "Mismatched redirect_uri or client_id")
    ELSE IF truthy(req.client_secret) /\ get_oauth_client(req.client_id) = MultipleResultsFound
    THEN HTTPException(500, "MultipleResultsFound")
    ELSE IF /\ truthy(req.client_secret)
            /\ LET client == get_oauth_client(req.client_id)
               IN  client = Nil \/ client.client_secret # req.client_secret
    THEN HTTPException(401, "Invalid client credentials")
    ELSE IF \/ /\ ~truthy(req.code_verifier)
               /\ "code_challenge" \in DOMAIN data
            \/ /\ truthy(req.code_verifier)
               /\ \/ "code_challenge" \notin DOMAIN data
                  \/ data.code_challenge # pkce_challenge(req.code_verifier)
    THEN HTTPException(400, "PKCE verification failed")
    ELSE [status |-> 200, detail |-> "",
          access_token |-> create_access_token(data.user_email, data.user_tier, data.origin),
          token_type |-> "bearer"]

\* /token in which a matching client_secret stands in for the PKCE check
token_checks_secret_excuses(data, req) ==
    IF data = Nil
    THEN HTTPException(400, "Invalid or expired code")
    ELSE IF data.client_id # req.client_id
    THEN HTTPException(400, "Mismatched redirect_uri or client_id")
    ELSE IF truthy(req.client_secret) /\ get_oauth_client(req.client_id) = MultipleResultsFound
    THEN HTTPException(500, "MultipleResultsFound")
    ELSE IF /\ truthy(req.client_secret)
            /\ LET client == get_oauth_client(req.client_id)
               IN  client = Nil \/ client.client_secret # req.client_secret
    THEN HTTPException(401, "Invalid client credentials")
    ELSE IF /\ ~truthy(req.client_secret)
            /\ truthy(req.code_verifier)
            /\ \/ "code_challenge" \notin DOMAIN data
               \/ data.code_challenge # pkce_challenge(req.code_verifier)
    THEN HTTPException(400, "PKCE verification failed")
    ELSE [status |-> 200, detail |-> "",
          access_token |-> create_access_token(data.user_email, data.user_tier, data.origin),
          token_type |-> "bearer"]

\* /token that resolves the tier of the subject again at the exchange
token_checks_tier_now(data, req) ==
    IF data = Nil
    THEN HTTPException(400, "Invalid or expired code")
    ELSE IF data.client_id # req.client_id
    THEN HTTPException(400, "Mismatched redirect_uri or client_id")
    ELSE IF truthy(req.client_secret) /\ get_oauth_client(req.client_id) = MultipleResultsFound
    THEN HTTPException(500, "MultipleResultsFound")
    ELSE IF /\ truthy(req.client_secret)
            /\ LET client == get_oauth_client(req.client_id)
               IN  client = Nil \/ client.client_secret # req.client_secret
    THEN HTTPException(401, "Invalid client credentials")
    ELSE IF /\ truthy(req.code_verifier)
            /\ \/ "code_challenge" \notin DOMAIN data
               \/ data.code_challenge # pkce_challenge(req.code_verifier)
    THEN HTTPException(400, "PKCE verification failed")
    ELSE [status |-> 200, detail |-> "",
          access_token |-> create_access_token(data.user_email,
                                               get_user_tier(data.user_email).tier,
                                               data.origin),
          token_type |-> "bearer"]

\* /token after get_auth_code returned data
token_checks(data, req) ==
    IF data = Nil
    THEN HTTPException(400, "Invalid or expired code")
    ELSE IF data.client_id # req.client_id
    THEN HTTPException(400, "Mismatched redirect_uri or client_id")
    ELSE IF truthy(req.client_secret) /\ get_oauth_client(req.client_id) = MultipleResultsFound
    THEN HTTPException(500, "MultipleResultsFound")
    ELSE IF /\ truthy(req.client_secret)
            /\ LET client == get_oauth_client(req.client_id)
               IN  client = Nil \/ client.client_secret # req.client_secret
    THEN HTTPException(401, "Invalid client credentials")
    ELSE IF /\ truthy(req.code_verifier)
            /\ \/ "code_challenge" \notin DOMAIN data
               \/ data.code_challenge # pkce_challenge(req.code_verifier)
    THEN HTTPException(400, "PKCE verification failed")
    ELSE [status |-> 200, detail |-> "",
          access_token |-> create_access_token(data.user_email, data.user_tier, data.origin),
          token_type |-> "bearer"]

LoginEmails ==
    {"bob@example.com", "dan@example.com", "eve@example.com", "ian@example.com",
     "zed@example.com"}
Passwords == {"pw", "bad"}
LoginClientIds == {"cid1", "nope"}
RedirectUris == {"https://app.example/cb"}
Challenges == {"D1", "D1="}

TokenRequests ==
    [code : Codes, redirect_uri : RedirectUris, client_id : {"cid1", "cid2"},
     client_secret : {None, "sec1", "bad"}, code_verifier : {None, "v1", "v2"}]

\* the /token requests that present the redirect_uri of /login or another one
TokenRedirectUris == RedirectUris \cup {"https://evil.example/cb"}
RedirectTokenRequests ==
    [code : Codes, redirect_uri : TokenRedirectUris, client_id : {"cid1", "cid2"},
     client_secret : {None}, code_verifier : {"v1"}]

\* the /token requests of the processes that run side by side: public clients
\* (no client_secret) of the client the codes are bound to
ConcTokenRequests ==
    {req \in TokenRequests : req.client_id = "cid1" /\ req.client_secret = None}

\* POST /login; secrets.token_urlsafe(32) never repeats a code
Login(email, password, client_id, redirect_uri, code_challenge) ==
    /\ issued < MaxCodes
    /\ LET oauth_client == get_oauth_client(client_id)
           tier == get_user_tier(email)
           code == issued + 1
           form == [email |-> email, password |-> password, client_id |-> client_id,
                    redirect_uri |-> redirect_uri, code_challenge |-> code_challenge]
       IN
       IF oauth_client = MultipleResultsFound
       THEN /\ resp' = [op |-> "login", req |-> form, issued_before |-> issued,
                        out |-> HTTPException(500, "MultipleResultsFound")]
            /\ UNCHANGED <<redis, issued, expires_at>>
       ELSE IF oauth_client = Nil
       THEN /\ resp' = [op |-> "login", req |-> form, issued_before |-> issued,
                        out |-> HTTPException(401, "Invalid client credentials")]
            /\ UNCHANGED <<redis, issued, expires_at>>
       ELSE IF ~validate_password(email, password)
       THEN /\ resp' = [op |-> "login", req |-> form, issued_before |-> issued,
                        out |-> [status |-> 200, detail |-> "Incorrect email or password"]]
            /\ UNCHANGED <<redis, issued, expires_at>>
       ELSE IF ~has_mcp_access(email)
       THEN /\ resp' = [op |-> "login", req |-> form, issued_before |-> issued,
                        out |-> [status |-> 200, detail |-> "You don't have access to this service."]]
            /\ UNCHANGED <<redis, issued, expires_at>>
       ELSE IF tier.raised
       THEN /\ resp' = [op |-> "login", req |-> form, issued_before |-> issued,
                        out |-> HTTPException(500, "UnboundLocalError")]
            /\ UNCHANGED <<redis, issued, expires_at>>
       ELSE /\ redis' = store_auth_code(redis, code,
                           [client_id |-> client_id, redirect_uri |-> redirect_uri,
                            code_challenge |-> code_challenge, user_email |-> email,
                            user_tier |-> tier.tier, origin |-> oauth_client.client_name])
            /\ expires_at' = setex_expiry(expires_at, code, clock)
            /\ issued' = code
            /\ resp' = [op |-> "login", req |-> form, issued_before |-> issued,
                        out |-> [status |-> 302, detail |-> "", code |-> code]]
    /\ UNCHANGED <<minted, redeemed, proc, clock>>
    /\ UNCHANGED dbVars
    /\ UNCHANGED quotaVars
    /\ UNCHANGED gateVars
    /\ UNCHANGED raceVars
    /\ UNCHANGED retry

\* a stored code is gone from the store (its time to live is over), with the
\* time left out
Expire(code) ==
    /\ redis[code] # Nil
    /\ redis' = [redis EXCEPT ![code] = Nil]
    /\ UNCHANGED <<issued, minted, redeemed, resp, proc>>
    /\ UNCHANGED timeVars
    /\ UNCHANGED dbVars
    /\ UNCHANGED quotaVars
    /\ UNCHANGED gateVars
    /\ UNCHANGED raceVars
    /\ UNCHANGED retry

\* the Redis clock advances; the keys whose expiry time is past are gone
Tick(dt) ==
    /\ clock + dt <= MaxClock
    /\ clock' = clock + dt
    /\ redis' = [c \in Codes |-> IF key_expired(expires_at, c, clock + dt) THEN Nil ELSE redis[c]]
    /\ UNCHANGED <<issued, minted, redeemed, resp, proc, expires_at>>
    /\ UNCHANGED dbVars
    /\ UNCHANGED quotaVars
    /\ UNCHANGED gateVars
    /\ UNCHANGED raceVars
    /\ UNCHANGED retry

Mint(tokens, code, out) ==
    IF out.status = 200
    THEN Append(tokens, [code |-> code, access_token |-> out.access_token, at |-> clock])
    ELSE tokens

\* POST /token in a single server process: get_auth_code is synchronous, so
\* no other request runs between its GET and its DEL
Token_keep_on_failure(req) ==
    LET g == get_auth_code(redis, req.code)
        out == token_checks(g.data, req)
    IN  /\ redis' = IF out.status = 200 THEN g.store ELSE redis
        /\ redeemed' = IF g.data # Nil THEN redeemed \cup {req.code} ELSE redeemed
        /\ minted' = Mint(minted, req.code, out)
        /\ resp' = [op |-> "token", req |-> req, data |-> g.data,
                    redeemed_before |-> redeemed, minted_before |-> Len(minted), out |-> out,
                    at |-> clock]
        /\ UNCHANGED <<issued, proc>>
        /\ UNCHANGED timeVars
        /\ UNCHANGED dbVars
        /\ UNCHANGED quotaVars
        /\ UNCHANGED gateVars
        /\ UNCHANGED raceVars
        /\ UNCHANGED retry

Token(req) ==
    LET g == get_auth_code(redis, req.code)
        out == token_checks(g.data, req)
    IN  /\ redis' = g.store
        /\ redeemed' = IF g.data # Nil THEN redeemed \cup {req.code} ELSE redeemed
        /\ minted' = Mint(minted, req.code, out)
        /\ resp' = [op |-> "token", req |-> req, data |-> g.data,
                    redeemed_before |-> redeemed, minted_before |-> Len(minted), out |-> out,
                    at |-> clock]
        /\ UNCHANGED <<issued, proc>>
        /\ UNCHANGED timeVars
        /\ UNCHANGED dbVars
        /\ UNCHANGED quotaVars
        /\ UNCHANGED gateVars
        /\ UNCHANGED raceVars
        /\ UNCHANGED retry

\* the rows of api_keys, with the email of the user each belongs to
APIKeys ==
    {[token |-> "k-bob", user |-> "bob@example.com"],
     [token |-> "k-dan", user |-> "dan@example.com"],
     [token |-> "k-eve", user |-> "eve@example.com"],
     [token |-> "k-ian", user |-> "ian@example.com"]}

ApiKeyInputs == {"k-bob", "k-dan", "k-eve", "k-ian", "k-none"}

\* AuthService.generate_token_for_api_key: the token, Nil for an unknown key
generate_token_for_api_key(api_key) ==
    LET rows == {k \in APIKeys : k.token = api_key}
    IN  IF rows = {} THEN [raised |-> FALSE, token |-> Nil]
        ELSE LET user == get_user((CHOOSE k \in rows : TRUE).user)
                 tier == get_user_tier(user.email)
             IN  IF tier.raised THEN [raised |-> TRUE]
                 ELSE [raised |-> FALSE,
                       token |-> create_access_token(user.email, tier.tier, "apikey")]

\* the tokens minted for API keys
KeyTokens == SelectSeq(minted, LAMBDA m : m.access_token.origin = "apikey")

\* POST /auth/token; the minted token belongs to no authorization code (code 0)
ApiKeyToken(api_key) ==
    /\ Len(KeyTokens) < MaxKeyTokens
    /\ LET g == generate_token_for_api_key(api_key)
           out == IF g.raised THEN HTTPException(500, "UnboundLocalError")
                  ELSE IF g.token = Nil THEN HTTPException(401, "Invalid API Key")
                  ELSE [status |-> 200, detail |-> "", access_token |-> g.token,
                        token_type |-> "bearer"]
       IN  /\ minted' = IF out.status = 200
                         THEN Append(minted, [code |-> 0, access_token |-> g.token,
                                              at |-> clock])
                         ELSE minted
           /\ resp' = [op |-> "api_key_token", req |-> [api_key |-> api_key], out |-> out]
    /\ UNCHANGED <<redis, issued, redeemed, proc>>
    /\ UNCHANGED timeVars
    /\ UNCHANGED dbVars
    /\ UNCHANGED quotaVars
    /\ UNCHANGED gateVars
    /\ UNCHANGED raceVars
    /\ UNCHANGED retry

\* POST /token in one of several server processes, command by command:
\* redis_client.get
TokenGet(p, req) ==
    /\ proc[p].pc = "idle"
    /\ proc' = [proc EXCEPT ![p] = [pc |-> IF redis[req.code] # Nil THEN "delete" ELSE "respond",
                                    req |-> req, val |-> redis[req.code]]]
    /\ redeemed' = IF redis[req.code] # Nil THEN redeemed \cup {req.code} ELSE redeemed
    /\ UNCHANGED <<redis, issued, minted, resp>>
    /\ UNCHANGED timeVars
    /\ UNCHANGED dbVars
    /\ UNCHANGED quotaVars
    /\ UNCHANGED gateVars
    /\ UNCHANGED raceVars
    /\ UNCHANGED retry

\* redis_client.delete
TokenDelete(p) ==
    /\ proc[p].pc = "delete"
    /\ redis' = [redis EXCEPT ![proc[p].req.code] = Nil]
    /\ proc' = [proc EXCEPT ![p].pc = "respond"]
    /\ UNCHANGED <<issued, minted, redeemed, resp>>
    /\ UNCHANGED timeVars
    /\ UNCHANGED dbVars
    /\ UNCHANGED quotaVars
    /\ UNCHANGED gateVars
    /\ UNCHANGED raceVars
    /\ UNCHANGED retry

\* the rest of the handler, from json.loads to the response
TokenRespond(p) ==
    /\ proc[p].pc = "respond"
    /\ LET data == IF proc[p].val # Nil THEN json_loads(proc[p].val) ELSE Nil
           out == token_checks(data, proc[p].req)
       IN  /\ minted' = Mint(minted, proc[p].req.code, out)
           /\ resp' = [op |-> "token", req |-> proc[p].req, data |-> data,
                       minted_before |-> Len(minted), out |-> out]
    /\ proc' = [proc EXCEPT ![p] = Idle]
    /\ UNCHANGED <<redis, issued, redeemed>>
    /\ UNCHANGED timeVars
    /\ UNCHANGED dbVars
    /\ UNCHANGED quotaVars
    /\ UNCHANGED gateVars
    /\ UNCHANGED raceVars
    /\ UNCHANGED retry

(***************************************************************************)
(* The middleware stack of app/server.py and the tools of app/gong_mcp.py. *)
(***************************************************************************)
\* str.find from position i (1-based); 0 when sub does not occur
RECURSIVE find(_, _, _)
find(s, sub, i) ==
    IF i + Len(sub) - 1 > Len(s) THEN 0
    ELSE IF SubSeq(s, i, i + Len(sub) - 1) = sub THEN i
    ELSE find(s, sub, i + 1)

\* str.replace(old, new)
RECURSIVE replace(_, _, _)
replace(s, old, new) ==
    LET i == find(s, old, 1)
    IN  IF i = 0 THEN s
        ELSE SubSeq(s, 1, i - 1) \o new
                \o replace(SubSeq(s, i + Len(old), Len(s)), old, new)

\* str.split() on spaces
RECURSIVE split(_)
split(s) ==
    IF s = "" THEN <<>>
    ELSE IF SubSeq(s, 1, 1) = " " THEN split(SubSeq(s, 2, Len(s)))
    ELSE LET i == find(s, " ", 1)
         IN  IF i = 0 THEN <<s>>
             ELSE <<SubSeq(s, 1, i - 1)>> \o split(SubSeq(s, i + 1, Len(s)))

\* base64.b64decode(...).decode("utf-8") of the credentials of the model;
\* any other text has incorrect padding and raises binascii.Error
b64decode(encoded) ==
    CASE encoded = "a2V5OnNlYw==" -> [raised |-> FALSE, value |-> "key:sec"]
      [] encoded = "YmFkOmJhZA==" -> [raised |-> FALSE, value |-> "bad:bad"]
      [] encoded = "OnNlYw==" -> [raised |-> FALSE, value |-> ":sec"]
      [] encoded = "a2V5" -> [raised |-> FALSE, value |-> "key"]
      [] OTHER -> [raised |-> TRUE]

\* jwt.encode of the k-th token minted in the run: header and payload, and a
\* signature made with JWT_SECRET
jwt_encode(k) == "jwt" \o SubSeq("0123456789", k + 1, k + 1) \o ".sig"

\* jwt.decode that does not look at the exp claim
jwt_decode_no_exp(token) ==
    LET signed == {k \in 1..Len(minted) : jwt_encode(k) = token}
    IN  IF token = "jwt-bob"
        THEN create_access_token("bob@example.com", "trial", "Claude")
        ELSE IF token = "jwt-eve"
        THEN create_access_token("eve@example.com", "free", "Claude")
        ELSE IF signed = {} THEN Nil
        ELSE minted[CHOOSE k \in signed : TRUE].access_token

\* jwt.decode(token, JWT_SECRET): the payload, or Nil for ExpiredSignatureError
\* and for InvalidTokenError (a signature JWT_SECRET did not make, a text that
\* is no token).  "jwt-bob" and "jwt-eve" are tokens signed just before the
\* request; a token minted in the run is expired once the clock is at its exp.
jwt_decode(token) ==
    LET signed == {k \in 1..Len(minted) : jwt_encode(k) = token}
    IN  IF token = "jwt-bob"
        THEN create_access_token("bob@example.com", "trial", "Claude")
        ELSE IF token = "jwt-eve"
        THEN create_access_token("eve@example.com", "free", "Claude")
        ELSE IF signed = {} THEN Nil
        ELSE LET payload == minted[CHOOSE k \in signed : TRUE].access_token
             IN  IF payload.exp <= clock THEN Nil ELSE payload

get_bearer_token(authorization) ==
    IF authorization = None \/ authorization = "" THEN Nil
    ELSE LET parts == split(authorization)
         IN  IF Len(parts) = 2 /\ parts[1] = "Bearer" THEN [token |-> parts[2]] ELSE Nil

get_user_from_request(request) ==
    LET token == get_bearer_token(request.authorization)
    IN  IF token = Nil THEN Nil ELSE jwt_decode(token.token)

Paths == {"/server/mcp", "/server/mcp/", "/server/sse", "/mcp/", "/health/", "/token"}

Authorizations ==
    {None, "Bearer jwt-bob", "Bearer jwt-eve", "Bearer jwt-expired", "Bearer forged",
     "Basic a2V5OnNlYw==", "Basic YmFkOmJhZA==", "Basic OnNlYw==", "Basic a2V5",
     "Basic a2V5O", "basic a2V5OnNlYw=="}

Requests == [path : Paths, authorization : Authorizations]

NoState == [none |-> TRUE]
NoGate == [op |-> "none"]
NoTool == [op |-> "none"]

\* the routes of app and of the mounted MCP application
route_status(path) ==
    IF path \in {"/health/", "/server/mcp/", "/token"} THEN 200 ELSE 404

call_next(request, state) ==
    [forwarded |-> TRUE, path |-> request.path, state |-> state,
     status |-> route_status(request.path), content |-> ""]

Response(request, status_code, content) ==
    [forwarded |-> FALSE, path |-> request.path, state |-> NoState,
     status |-> status_code, content |-> content]

\* RedirectMiddleware.dispatch: the rewritten request
redirect(request) ==
    IF ~endswith(request.path, "/") /\ request.path \o "/" \in {"/server/mcp/"}
    THEN [request EXCEPT !.path = request.path \o "/"]
    ELSE request

\* the path test that leaves out the paths ending in "/mcp/"
is_protected_path_no_slash(scope_path) ==
    endswith(scope_path, "/sse") \/ endswith(scope_path, "/mcp")

\* the path test of AuthenticationMiddleware.dispatch
is_protected_path(scope_path) ==
    \/ endswith(scope_path, "/sse")
    \/ endswith(scope_path, "/mcp")
    \/ endswith(scope_path, "/mcp/")

\* AuthenticationMiddleware.dispatch
dispatch(request) ==
    IF ~is_protected_path(request.path) THEN call_next(request, NoState)
    ELSE
    LET auth_header == IF request.authorization = None THEN "" ELSE request.authorization
    IN
    IF ~startswith(auth_header, "Basic ")
    THEN Response(request, 401, "Unauthorized: Missing or invalid Authorization header")
    ELSE
    LET decoded == b64decode(replace(auth_header, "Basic ", ""))
    IN
    IF decoded.raised
    THEN Response(request, 401, "Unauthorized: Failed to decode credentials")
    ELSE IF find(decoded.value, ":", 1) = 0
    THEN Response(request, 401, "Unauthorized: Invalid credentials format")
    ELSE
    LET i == find(decoded.value, ":", 1)
    IN  call_next(request,
                  [gong_access_key |-> SubSeq(decoded.value, 1, i - 1),
                   gong_access_secret |-> SubSeq(decoded.value, i + 1, Len(decoded.value))])

\* what the Gong API answers to an authenticated request
GongCalls == [calls |-> <<"call-1", "call-2">>]
GongTranscripts(call_ids) == [callTranscripts |-> call_ids]

\* APIService.get_gong_calls(cls, from_datetime=None, to_datetime=None),
\* called with the positional arguments argv
get_gong_calls(argv) ==
    IF Len(argv) > 2 THEN [raised |-> TRUE, error |-> "TypeError"]
    ELSE [raised |-> FALSE, value |-> GongCalls]

\* APIService.get_gong_transcripts(cls, call_ids), called with argv
get_gong_transcripts(argv) ==
    IF Len(argv) > 1 THEN [raised |-> TRUE, error |-> "TypeError"]
    ELSE [raised |-> FALSE, value |-> GongTranscripts(argv[1])]

\* getattr(request.state, name, None)
state_attr(state, name) == IF name \in DOMAIN state THEN state[name] ELSE None

\* isinstance(value, str) for the values a tool argument takes here: None or
\* a string
isinstance_str(value) == value # None

\* app/gong_mcp.py: is_gong_list_calls_args(args), args a dict
is_gong_list_calls_args(args) ==
    IF /\ "fromDateTime" \in DOMAIN args
       /\ args.fromDateTime # None
       /\ ~isinstance_str(args.fromDateTime)
    THEN FALSE
    ELSE IF /\ "toDateTime" \in DOMAIN args
            /\ args.toDateTime # None
            /\ ~isinstance_str(args.toDateTime)
    THEN FALSE
    ELSE TRUE

\* the tool list_calls on a request with the given state
list_calls(state, from_datetime, to_datetime) ==
    LET gong_access_key == state_attr(state, "gong_access_key")
        gong_access_secret == state_attr(state, "gong_access_secret")
    IN
    IF ~truthy(gong_access_key) \/ ~truthy(gong_access_secret)
    THEN [text |-> "Error: Gong API credentials not provided", upstream |-> FALSE]
    ELSE IF ~is_gong_list_calls_args([fromDateTime |-> from_datetime, toDateTime |-> to_datetime])
    THEN [text |-> "Error: Invalid arguments for list_calls", upstream |-> FALSE]
    ELSE
    LET response == get_gong_calls(<<from_datetime, to_datetime,
                                     gong_access_key, gong_access_secret>>)
    IN  IF response.raised
        THEN [text |-> "Error listing calls: " \o response.error, upstream |-> FALSE]
        ELSE [text |-> json_dumps(response.value), upstream |-> TRUE]

\* the tool retrieve_transcripts on a request with the given state
retrieve_transcripts(state, call_ids) ==
    LET gong_access_key == state_attr(state, "gong_access_key")
        gong_access_secret == state_attr(state, "gong_access_secret")
    IN
    IF ~truthy(gong_access_key) \/ ~truthy(gong_access_secret)
    THEN [text |-> "Error: Gong API credentials not provided", upstream |-> FALSE]
    ELSE
    LET response == get_gong_transcripts(<<call_ids, gong_access_key, gong_access_secret>>)
    IN  IF response.raised
        THEN [text |-> "Error retrieving transcripts: " \o response.error, upstream |-> FALSE]
        ELSE [text |-> json_dumps(response.value), upstream |-> TRUE]

DateTimes == {None, "2024-03-01T00:00:00Z"}
CallIdLists == {<<>>, <<"c1">>, <<"c1", "c2">>}

\* a request enters the middleware stack: RedirectMiddleware was added last
\* and runs first, AuthenticationMiddleware runs on the rewritten path
Dispatch(request) ==
    /\ gate' = [op |-> "dispatch", request |-> request, out |-> dispatch(redirect(request))]
    /\ tool' = NoTool
    /\ UNCHANGED quotaVars
    /\ UNCHANGED authVars
    /\ UNCHANGED raceVars
    /\ UNCHANGED retry

\* the forwarded request reached the MCP application
AtToolSurface ==
    /\ gate.op = "dispatch"
    /\ gate.out.forwarded
    /\ gate.out.path = "/server/mcp/"

\* tools/call list_calls on the forwarded request; the tool calls no service
\* other than APIService
ListCalls(from_datetime, to_datetime) ==
    /\ AtToolSurface
    /\ tool' = [op |-> "list_calls", args |-> <<from_datetime, to_datetime>>,
                out |-> list_calls(gate.out.state, from_datetime, to_datetime)]
    /\ UNCHANGED gate
    /\ UNCHANGED quotaVars
    /\ UNCHANGED authVars
    /\ UNCHANGED raceVars
    /\ UNCHANGED retry

\* tools/call retrieve_transcripts on the forwarded request
RetrieveTranscripts(call_ids) ==
    /\ AtToolSurface
    /\ tool' = [op |-> "retrieve_transcripts", args |-> <<call_ids>>,
                out |-> retrieve_transcripts(gate.out.state, call_ids)]
    /\ UNCHANGED gate
    /\ UNCHANGED quotaVars
    /\ UNCHANGED authVars
    /\ UNCHANGED raceVars
    /\ UNCHANGED retry

(***************************************************************************)
(* Verification of session tokens over time.                               *)
(***************************************************************************)
\* the Authorization headers presented to get_user_from_request: none, the
\* tokens minted so far, a token with another signature, a text that is no
\* token, and headers that are not "Bearer <token>"
VerifyHeaders ==
    {None, "Bearer", "Bearer garbage", "Bearer jwt1.bad", "Basic a2V5OnNlYw==",
     "Bearer jwt1.sig x"}
        \cup {"Bearer " \o jwt_encode(k) : k \in 1..Len(minted)}

\* AuthService.get_user_from_request on a request with this header
GetUserFromRequest(authorization) ==
    /\ last' = [op |-> "get_user_from_request", authorization |-> authorization,
                at |-> clock,
                ret |-> get_user_from_request([path |-> "/", authorization |-> authorization])]
    /\ UNCHANGED <<now, mcp_user, mcp_user_activity>>
    /\ UNCHANGED authVars
    /\ UNCHANGED gateVars
    /\ UNCHANGED raceVars
    /\ UNCHANGED retry

\* time passes on the scale of the validity of a token; the keys of the Redis
\* store whose expiry time is past are gone
Elapse(dt) ==
    /\ clock + dt <= MaxTokenClock
    /\ clock' = clock + dt
    /\ redis' = [c \in Codes |-> IF key_expired(expires_at, c, clock + dt) THEN Nil ELSE redis[c]]
    /\ UNCHANGED <<issued, minted, redeemed, resp, proc, expires_at>>
    /\ UNCHANGED dbVars
    /\ UNCHANGED quotaVars
    /\ UNCHANGED gateVars
    /\ UNCHANGED raceVars
    /\ UNCHANGED retry

(***************************************************************************)
(* Rows of users_user_permissions and users_groups come and go.            *)
(***************************************************************************)
\* the users whose permission rows change: an active and an inactive one
GrantEmails == {"eve@example.com", "ian@example.com"}

\* the emails that log in while the rows change
DirectoryEmails == {"bob@example.com", "eve@example.com"}

\* a row (user, has_mcp_access) is added to users_user_permissions
AddUserPermission(email) ==
    /\ \E u \in users : u.email = email /\ "has_mcp_access" \notin u.permissions
    /\ users' = {IF u.email = email
                 THEN [u EXCEPT !.permissions = @ \cup {"has_mcp_access"}] ELSE u : u \in users}
    /\ last' = [op |-> "add_user_permission", email |-> email, had |-> has_mcp_access(email)]
    /\ UNCHANGED <<now, mcp_user, mcp_user_activity>>
    /\ UNCHANGED <<redis, issued, minted, redeemed, resp, proc, clock, expires_at, oauth_user_mcp>>
    /\ UNCHANGED gateVars
    /\ UNCHANGED raceVars
    /\ UNCHANGED retry

\* the row (user, has_mcp_access) is deleted from users_user_permissions
DeleteUserPermission(email) ==
    /\ \E u \in users : u.email = email /\ "has_mcp_access" \in u.permissions
    /\ users' = {IF u.email = email
                 THEN [u EXCEPT !.permissions = @ \ {"has_mcp_access"}] ELSE u : u \in users}
    /\ last' = [op |-> "delete_user_permission", email |-> email, had |-> has_mcp_access(email)]
    /\ UNCHANGED <<now, mcp_user, mcp_user_activity>>
    /\ UNCHANGED <<redis, issued, minted, redeemed, resp, proc, clock, expires_at, oauth_user_mcp>>
    /\ UNCHANGED gateVars
    /\ UNCHANGED raceVars
    /\ UNCHANGED retry

\* the group names a user is moved between
GroupLists ==
    {<<"staff", "user_type:enterprise_trial">>, <<"staff", "user_type:student">>}

\* the rows of users_groups of a user are replaced
SetUserGroups(email, groups) ==
    /\ \E u \in users : u.email = email /\ u.groups # groups
    /\ users' = {IF u.email = email THEN [u EXCEPT !.groups = groups] ELSE u : u \in users}
    /\ UNCHANGED oauth_user_mcp
    /\ UNCHANGED <<redis, issued, minted, redeemed, resp, proc, clock, expires_at>>
    /\ UNCHANGED quotaVars
    /\ UNCHANGED gateVars
    /\ UNCHANGED raceVars
    /\ UNCHANGED retry

(***************************************************************************)
(* Registration of OAuth clients.                                          *)
(***************************************************************************)
\* what secrets.token_urlsafe(16) returns: the client_id of a row of the
\* table, or a new one
GeneratedClientIds == {"cid1", "cid3"}

ClientNames == {"Claude", "Zed"}

\* the commit of a new row raises IntegrityError when a constraint of the
\* table is violated: oauth_user_mcp has the primary key id, which the
\* database assigns, and no unique column
IntegrityError(rows, client) == FALSE

\* AuthService.create_oauth_client: the table after it and the row, Nil
\* after a rollback
create_oauth_client(rows, client_id, client_secret, client_name) ==
    LET client == [client_id |-> client_id, client_secret |-> client_secret,
                   client_name |-> client_name]
    IN  IF IntegrityError(rows, client) THEN [rows |-> rows, client |-> Nil]
        ELSE [rows |-> Append(rows, client), client |-> client]

\* POST /register, with the client_id and the client_secret it generated
register_client(rows, client_name, client_id, client_secret) ==
    LET r == create_oauth_client(rows, client_id, client_secret, client_name)
    IN  IF r.client = Nil
        THEN [rows |-> r.rows, out |-> HTTPException(400, "Client already exists")]
        ELSE [rows |-> r.rows,
              out |-> [status |-> 200, detail |-> "", client_id |-> client_id,
                       client_secret |-> client_secret, client_name |-> client_name]]

Register(client_name, client_id) ==
    /\ Len(oauth_user_mcp) < MaxClients
    /\ LET r == register_client(oauth_user_mcp, client_name, client_id, "sec3")
       IN  /\ oauth_user_mcp' = r.rows
           /\ resp' = [op |-> "register", req |-> [client_name |-> client_name],
                       client_id |-> client_id, rows_before |-> oauth_user_mcp,
                       out |-> r.out]
    /\ UNCHANGED users
    /\ UNCHANGED <<redis, issued, minted, redeemed, proc, clock, expires_at>>
    /\ UNCHANGED quotaVars
    /\ UNCHANGED gateVars
    /\ UNCHANGED raceVars
    /\ UNCHANGED retry

(***************************************************************************)
(* gong_server.py: the standalone server, which runs the tools without the *)
(* gateway in front of them.                                               *)
(***************************************************************************)
\* gong_server.py: is_gong_list_calls_args(args), args a dict
gong_server_is_gong_list_calls_args(args) ==
    IF "fromDateTime" \in DOMAIN args /\ ~isinstance_str(args.fromDateTime)
    THEN FALSE
    ELSE IF "toDateTime" \in DOMAIN args /\ ~isinstance_str(args.toDateTime)
    THEN FALSE
    ELSE TRUE

\* what the Gong API does with a request: it answers, or the request raises
Upstreams == {"ok", "API Error"}

\* GongClient.list_calls: the query parameters hold the dates that are truthy
GongClient_list_calls(from_datetime, to_datetime, upstream) ==
    LET params == {k \in {"fromDateTime", "toDateTime"} :
                      truthy(IF k = "fromDateTime" THEN from_datetime ELSE to_datetime)}
    IN  IF upstream = "ok"
        THEN [raised |-> FALSE, params |-> params, value |-> GongCalls]
        ELSE [raised |-> TRUE, params |-> params, error |-> upstream]

\* the tool list_calls of gong_server.py
gong_server_list_calls(from_datetime, to_datetime, upstream) ==
    LET args == [fromDateTime |-> from_datetime, toDateTime |-> to_datetime]
    IN
    IF ~gong_server_is_gong_list_calls_args(args)
    THEN [text |-> "Error listing calls: Invalid arguments for list_calls",
          upstream |-> FALSE, params |-> {}]
    ELSE
    LET response == GongClient_list_calls(from_datetime, to_datetime, upstream)
    IN  IF response.raised
        THEN [text |-> "Error listing calls: " \o response.error, upstream |-> TRUE,
              params |-> response.params]
        ELSE [text |-> json_dumps(response.value), upstream |-> TRUE,
              params |-> response.params]

\* tools/call list_calls on the standalone server
ServerListCalls(from_datetime, to_datetime, upstream) ==
    /\ tool' = [op |-> "gong_server.list_calls", args |-> <<from_datetime, to_datetime>>,
                api |-> upstream,
                out |-> gong_server_list_calls(from_datetime, to_datetime, upstream)]
    /\ UNCHANGED gate
    /\ UNCHANGED quotaVars
    /\ UNCHANGED authVars
    /\ UNCHANGED raceVars
    /\ UNCHANGED retry

(***************************************************************************)
(* app/helpers.py: retry_with_backoff(func, max_retries, backoff_factor,   *)
(* max_backoff, jitter_range, retry_status_codes, exclude_status_codes,    *)
(* timeout).  One run is modelled step by step: a call of func, then the   *)
(* backoff that follows it.  A list argument left at None and an empty     *)
(* list are both falsy and are the empty set here; a timeout left at None  *)
(* is 0, which is falsy as well.                                           *)
(***************************************************************************)
min(a, b) == IF a <= b THEN a ELSE b

\* what one call of func produces: an exception, or a response whose
\* status_code attribute is read with getattr(response, "status_code", None)
StatusCodes == {None, "200", "400", "429"}
FuncResults ==
    [raised : {TRUE}, status_code : {None}] \cup [raised : {FALSE}, status_code : StatusCodes]
NoResult == [raised |-> FALSE, status_code |-> "no call yet"]

\* the seconds one call of func takes, and the values random.uniform draws
CallSeconds == {0, 1}
Jitters == {1, 2}

RetryConfigs ==
    [max_retries : 0..MaxRetries, backoff_factor : {2}, max_backoff : {MaxBackoff},
     retry_status_codes : {{}, {"429"}}, exclude_status_codes : {{}, {"400"}},
     timeout : {0, RetryTimeout}]

RetryIdle ==
    [pc |-> "idle",
     cfg |-> [max_retries |-> 0, backoff_factor |-> 2, max_backoff |-> MaxBackoff,
              retry_status_codes |-> {}, exclude_status_codes |-> {}, timeout |-> 0],
     retries |-> 0, calls |-> 0, elapsed_time |-> 0, status_code |-> None,
     result |-> NoResult, backoff_time |-> 0, jitter |-> 0, total_backoff_time |-> 0,
     slept_at |-> 0, outcome |-> "running", response |-> NoResult]

\* the two early returns after a call that did not raise
returns_response(cfg, status_code) ==
    \/ cfg.retry_status_codes # {} /\ status_code \notin cfg.retry_status_codes
    \/ cfg.exclude_status_codes # {} /\ status_code \in cfg.exclude_status_codes

backoff_time_uncapped(cfg, retries) == cfg.backoff_factor * (2 ^ retries)

backoff_time(cfg, retries) == min(cfg.backoff_factor * (2 ^ retries), cfg.max_backoff)

\* the loop test: another call while retries < max_retries, otherwise the
\* final raise
while_retries(r) ==
    IF r.retries < r.cfg.max_retries
    THEN [r EXCEPT !.pc = "call"]
    ELSE [r EXCEPT !.pc = "done", !.outcome = "Exception: Exceeded max retries"]

RetryStart(cfg) ==
    /\ retry.pc = "idle"
    /\ retry' = while_retries([RetryIdle EXCEPT !.cfg = cfg])
    /\ UNCHANGED quotaVars
    /\ UNCHANGED authVars
    /\ UNCHANGED gateVars
    /\ UNCHANGED raceVars

\* response = func() and what the try block and its handler do with it
RetryCall(result, seconds) ==
    /\ retry.pc = "call"
    /\ LET r == [retry EXCEPT !.calls = @ + 1, !.result = result,
                              !.elapsed_time = @ + seconds,
                              !.status_code = IF result.raised THEN @ ELSE result.status_code]
       IN  retry' =
             IF result.raised
             THEN IF r.retries = r.cfg.max_retries - 1
                  THEN [r EXCEPT !.pc = "done", !.outcome = "raise e"]
                  ELSE [r EXCEPT !.pc = "backoff"]
             ELSE IF returns_response(r.cfg, result.status_code)
                  THEN [r EXCEPT !.pc = "done", !.outcome = "return", !.response = result]
                  ELSE [r EXCEPT !.pc = "backoff"]
    /\ UNCHANGED quotaVars
    /\ UNCHANGED authVars
    /\ UNCHANGED gateVars
    /\ UNCHANGED raceVars

\* the backoff, the timeout test, the sleep and retries += 1
RetrySleep(jitter) ==
    /\ retry.pc = "backoff"
    /\ LET backoff == backoff_time(retry.cfg, retry.retries)
           total == backoff + jitter
           r == [retry EXCEPT !.backoff_time = backoff, !.jitter = jitter,
                              !.total_backoff_time = total, !.slept_at = retry.retries]
       IN  retry' =
             IF r.cfg.timeout # 0 /\ r.elapsed_time + total > r.cfg.timeout
             THEN [r EXCEPT !.pc = "done", !.outcome = "TimeoutError"]
             ELSE while_retries([r EXCEPT !.elapsed_time = @ + total, !.retries = @ + 1])
    /\ UNCHANGED quotaVars
    /\ UNCHANGED authVars
    /\ UNCHANGED gateVars
    /\ UNCHANGED raceVars

QuotaInit ==
    /\ now = 0
    /\ mcp_user = [e \in Emails |-> NoRow]
    /\ mcp_user_activity = <<>>
    /\ last = NoCall

AuthInit ==
    /\ redis = [c \in Codes |-> Nil]
    /\ issued = 0
    /\ minted = <<>>
    /\ redeemed = {}
    /\ resp = NoResponse
    /\ proc = [p \in Procs |-> Idle]
    /\ clock = 0
    /\ expires_at = [c \in Codes |-> 0]
    /\ users = Users
    /\ oauth_user_mcp = OAuthClients

GateInit ==
    /\ gate = NoGate
    /\ tool = NoTool

RaceInit ==
    /\ mcp_user_rows = <<>>
    /\ call = [p \in Procs |-> IdleCall]

RetryInit == retry = RetryIdle

Init == QuotaInit /\ AuthInit /\ GateInit /\ RaceInit /\ RetryInit

Next ==
    \/ \E email \in Emails, tier \in TierArgs, dt \in 1..MaxStep :
          GetOrCreateMcpUser(email, tier, dt)
    \/ \E email \in Emails, company_id \in CompanyInputs(mcp_user_activity), dt \in 1..MaxStep :
          AccessControl(email, company_id, dt)

Spec == Init /\ [][Next]_vars

\* One non-internal subject is created once and access_control keeps being
\* called for it; every call reads a later datetime.now().
QuotaLiveNext ==
    \/ \E email \in Emails \ InternalEmails, tier \in TierArgs, dt \in 1..MaxStep :
          /\ mcp_user[email] = NoRow
          /\ GetOrCreateMcpUser(email, tier, dt)
    \/ \E email \in Emails \ InternalEmails,
          company_id \in CompanyInputs(mcp_user_activity), dt \in 1..MaxStep :
          AccessControl(email, company_id, dt)

QuotaLiveSpec ==
    /\ Init
    /\ [][QuotaLiveNext]_vars
    /\ \A email \in Emails \ InternalEmails :
          WF_vars(\E company_id \in CompanyInputs(mcp_user_activity), dt \in 1..MaxStep :
                     AccessControl(email, company_id, dt))

AuthLogin ==
    \E email \in LoginEmails, password \in Passwords, client_id \in LoginClientIds,
       redirect_uri \in RedirectUris, code_challenge \in Challenges :
          Login(email, password, client_id, redirect_uri, code_challenge)

AuthNext ==
    \/ AuthLogin
    \/ \E code \in Codes : Expire(code)
    \/ \E req \in TokenRequests : Token(req)

AuthSpec == Init /\ [][AuthNext]_vars

\* /login and /token in one server process, with the Redis clock running; the
\* /token requests are those of public clients (no client_secret)
AuthTimedNext ==
    \/ AuthLogin
    \/ Tick(TickSeconds)
    \/ \E req \in TokenRequests : req.client_secret = None /\ Token(req)

AuthTimedSpec == Init /\ [][AuthTimedNext]_vars

\* the three routes that lead to a session token
AuthKeyNext ==
    \/ AuthLogin
    \/ \E req \in TokenRequests : Token(req)
    \/ \E api_key \in ApiKeyInputs : ApiKeyToken(api_key)

AuthKeySpec == Init /\ [][AuthKeyNext]_vars

AuthConcNext ==
    \/ AuthLogin
    \/ \E code \in Codes : Expire(code)
    \/ \E p \in Procs, req \in ConcTokenRequests : TokenGet(p, req)
    \/ \E p \in Procs : TokenDelete(p)
    \/ \E p \in Procs : TokenRespond(p)

AuthConcSpec == Init /\ [][AuthConcNext]_vars

\* get_or_create_mcp_user in several sessions at once
CreateConcNext ==
    \/ \E p \in Procs, email \in Emails, tier \in TierArgs : CreateGet(p, email, tier)
    \/ \E p \in Procs : CreateCommit(p)
    \/ \E p \in Procs : CreateReturn(p)

CreateConcSpec == Init /\ [][CreateConcNext]_vars

\* access_control in several sessions at once, on subjects that
\* get_or_create_mcp_user created
AccessConcNext ==
    \/ \E email \in ConcEmails, tier \in ConcTiers :
          \E dt \in ConcSteps(email) : GetOrCreateMcpUser(email, tier, dt)
    \/ \E p \in Procs, email \in ConcEmails, company_id \in ConcCompanyInputs :
          AcBegin(p, email, company_id)
    \/ \E p \in Procs : AcTotal(p)
    \/ \E p \in Procs : AcUnblock(p)
    \/ \E p \in Procs : AcSeen(p)
    \/ \E p \in Procs : AcLimit(p)
    \/ \E p \in Procs : AcBlock(p)
    \/ \E p \in Procs : AcLog(p)
    \/ \E p \in Procs : AcReturn(p)

AccessConcSpec == Init /\ [][AccessConcNext]_vars

\* requests through the middleware stack, and tool calls on the forwarded ones
\* minting through /login and /token, and verification of the minted tokens
\* as time passes
VerifyNext ==
    \/ \E email \in LoginEmails, redirect_uri \in RedirectUris :
          Login(email, "pw", "cid1", redirect_uri, "D1")
    \/ \E req \in ConcTokenRequests : req.code_verifier = "v1" /\ Token(req)
    \/ Elapse(TokenTick)
    \/ \E authorization \in VerifyHeaders : GetUserFromRequest(authorization)

VerifySpec == Init /\ [][VerifyNext]_vars

\* /login and /token while the permissions and the groups of the users change
DirectoryNext ==
    \/ \E email \in DirectoryEmails, redirect_uri \in RedirectUris, client_id \in {"cid1", "cid2"} :
          Login(email, "pw", client_id, redirect_uri, "D1")
    \/ \E req \in TokenRequests :
          req.client_secret = None /\ req.code_verifier = "v1" /\ Token(req)
    \/ \E email \in GrantEmails : AddUserPermission(email)
    \/ \E email \in GrantEmails : DeleteUserPermission(email)
    \/ \E groups \in GroupLists : SetUserGroups("bob@example.com", groups)

DirectorySpec == Init /\ [][DirectoryNext]_vars

\* /register, and /login with the registered clients
RegisterNext ==
    \/ \E client_name \in ClientNames, client_id \in GeneratedClientIds :
          Register(client_name, client_id)
    \/ \E email \in DirectoryEmails, client_id \in GeneratedClientIds,
          redirect_uri \in RedirectUris :
          Login(email, "pw", client_id, redirect_uri, "D1")

RegisterSpec == Init /\ [][RegisterNext]_vars

GateNext ==
    \/ \E request \in Requests : Dispatch(request)
    \/ \E from_datetime \in DateTimes, to_datetime \in DateTimes :
          ListCalls(from_datetime, to_datetime)
    \/ \E call_ids \in CallIdLists : RetrieveTranscripts(call_ids)

GateSpec == Init /\ [][GateNext]_vars

\* the tools of the gateway and of the standalone server
ToolsNext ==
    \/ GateNext
    \/ \E from_datetime \in DateTimes, to_datetime \in DateTimes, upstream \in Upstreams :
          ServerListCalls(from_datetime, to_datetime, upstream)

ToolsSpec == Init /\ [][ToolsNext]_vars

\* /login and /token in one server process, the /token requests presenting
\* the redirect_uri the code was issued for or another one
RedirectNext ==
    \/ AuthLogin
    \/ \E req \in RedirectTokenRequests : Token(req)

RedirectSpec == Init /\ [][RedirectNext]_vars

\* one run of retry_with_backoff; the second specification adds that the
\* run keeps going: func returns or raises, and time.sleep ends
RetryNext ==
    \/ \E cfg \in RetryConfigs : RetryStart(cfg)
    \/ \E result \in FuncResults, seconds \in CallSeconds : RetryCall(result, seconds)
    \/ \E jitter \in Jitters : RetrySleep(jitter)

RetrySpec == Init /\ [][RetryNext]_vars

RetryLiveSpec ==
    /\ RetrySpec
    /\ WF_vars(\E result \in FuncResults, seconds \in CallSeconds : RetryCall(result, seconds))
    /\ WF_vars(\E jitter \in Jitters : RetrySleep(jitter))

(***************************************************************************)
(* Access-Control Engine: the latest call, as the properties read it.      *)
(***************************************************************************)
IsAccess == last.op = "access_control"

External == IsAccess /\ last.email \notin InternalEmails

\* the row of the called user after the call
Post == mcp_user[last.email]

\* the activity table before the call (the table is append-only)
PreActivity == SubSeq(mcp_user_activity, 1, last.pre_len)

\* the distinct resources of a user in an activity table
Seen(activity, user_id) ==
    {activity[i].accessed_company : i \in RowsOf(activity, user_id)}

\* the distinct resources of a user inside the window that applies at time t
InWindow(activity, user, t) ==
    {activity[i].accessed_company :
        i \in {j \in RowsOf(activity, user.id) :
                 /\ activity[j].timestamp >= user.unblocked_at
                 /\ activity[j].timestamp >= t - TIER_TIME_LIMITS[user.tier].days * TicksPerDay}}

PreSeen == Seen(PreActivity, last.pre.id)
PreTotal == Cardinality(PreSeen)
PostTotal == Cardinality(Seen(mcp_user_activity, last.pre.id))
PreWindow == Cardinality(InWindow(PreActivity, last.pre, last.at))
PostWindow == Cardinality(InWindow(mcp_user_activity, Post, last.at))
PreLimit == TIER_TIME_LIMITS[last.pre.tier].limit
PreDays == TIER_TIME_LIMITS[last.pre.tier].days
NewResource == last.company_id \notin PreSeen
NothingLogged == Len(mcp_user_activity) = last.pre_len

\* C4: a call for a further distinct resource by a non-internal subject whose
\* log holds total_limit distinct resources is denied with "Total limit
\* reached", whatever the status and the window count, and changes neither the
\* subject (no move to BLOCKED) nor the log.
C4_TotalLimitDeniedFirst ==
    (External /\ PreTotal >= last.pre.total_limit /\ NewResource)
        => /\ ~last.allowed
           /\ last.message = MsgTotal
           /\ Post = last.pre
           /\ NothingLogged

\* C4 witness: both the lifetime and the window limit are reached, the call
\* names a new resource, is denied for the lifetime limit and the subject stays FREE.
C4_Witness ==
    /\ External /\ NewResource
    /\ PreTotal = last.pre.total_limit
    /\ PreWindow >= PreLimit
    /\ last.pre.status = "FREE"
    /\ ~last.allowed /\ last.message = MsgTotal
    /\ Post.status = "FREE"

FreshBefore ==
    /\ last.pre.status = "FREE"
    /\ last.pre.unblocked_at = last.pre.created_at
    /\ last.at <= last.pre.created_at + PreDays * TicksPerDay

\* C5: for a subject never blocked since its creation whose lifetime cap
\* exceeds the window limit, a call for a new resource made within `days` of the
\* creation is allowed (and logged) while fewer than `limit` resources are
\* logged; with `limit` resources logged it is denied, the subject becomes
\* BLOCKED and the message names unblocked_at + days.
C5_WindowLimitBlocks ==
    (External /\ FreshBefore /\ NewResource /\ last.pre.total_limit > PreLimit)
        => IF PreTotal < PreLimit
           THEN /\ last.allowed
                /\ Len(mcp_user_activity) = last.pre_len + 1
                /\ Post.status = "FREE"
           ELSE /\ ~last.allowed
                /\ Post.status = "BLOCKED"
                /\ Post.unblocked_at = last.pre.unblocked_at
                /\ last.message = MsgBlocked(last.pre.unblocked_at + PreDays * TicksPerDay)

\* C5 witness: the call after `limit` allowed ones, in the first window, is denied and blocks.
C5_Witness ==
    /\ External /\ FreshBefore /\ NewResource
    /\ last.pre.total_limit > PreLimit
    /\ PreTotal = PreLimit
    /\ ~last.allowed
    /\ Post.status = "BLOCKED"

DueForUnblock == last.at >= last.pre.unblocked_at + PreDays * TicksPerDay

\* C6: a call by a BLOCKED subject below its lifetime cap, made `days` or more
\* after unblocked_at, is allowed for any resource, sets the status to FREE
\* (ACTIVE) and unblocked_at to the time of the call.
C6_AutoUnblock ==
    (External /\ last.pre.status = "BLOCKED" /\ PreTotal < last.pre.total_limit /\ DueForUnblock)
        => /\ last.allowed
           /\ Post.status = "FREE"
           /\ Post.unblocked_at = last.at

\* C6 witness: the unblocking call comes exactly `days` after unblocked_at and names a new resource.
C6_Witness ==
    /\ External /\ last.pre.status = "BLOCKED" /\ NewResource
    /\ last.at = last.pre.unblocked_at + PreDays * TicksPerDay
    /\ last.allowed
    /\ Post.status = "FREE"
    /\ Len(mcp_user_activity) = last.pre_len + 1

\* C7 as stated: a call for a resource already in the log of a non-internal
\* subject is allowed in every state, the lifetime limit reached included.
C7_RepeatAlwaysAllowed ==
    (External /\ ~NewResource) => last.allowed

\* C7 amended: a call for a resource already in the log of a non-internal
\* subject is allowed whenever the lifetime limit is not reached, also when the
\* subject is BLOCKED and when the window limit is reached; with the lifetime
\* limit reached it is denied with "Total limit reached".
C7_RepeatAllowedBelowTotal ==
    (External /\ ~NewResource)
        => IF PreTotal < last.pre.total_limit
           THEN last.allowed /\ last.message = MsgNone
           ELSE ~last.allowed /\ last.message = MsgTotal

\* C7 witness: a repeat call by a BLOCKED subject that is not yet due for unblocking is allowed.
C7_Witness ==
    /\ External /\ ~NewResource
    /\ last.pre.status = "BLOCKED" /\ ~DueForUnblock
    /\ PreWindow >= PreLimit
    /\ last.allowed
    /\ Post.status = "BLOCKED"

\* C8 as stated: a call for a resource already in the log appends nothing,
\* leaves the lifetime and the within-window count unchanged and never moves
\* the subject from FREE to BLOCKED.
C8_RepeatChangesNoCount ==
    (External /\ ~NewResource)
        => /\ NothingLogged
           /\ PostTotal = PreTotal
           /\ PostWindow = PreWindow
           /\ ~(last.pre.status = "FREE" /\ Post.status = "BLOCKED")

\* C8 amended: a call for a resource already in the log appends nothing,
\* leaves the lifetime count unchanged, never raises the within-window count
\* (the count changes only when the call auto-unblocks the subject, which
\* restarts the window) and never moves the subject from FREE to BLOCKED.
C8_RepeatConsumesNothing ==
    (External /\ ~NewResource)
        => /\ NothingLogged
           /\ PostTotal = PreTotal
           /\ PostWindow <= PreWindow
           /\ (PostWindow # PreWindow =>
                 last.pre.status = "BLOCKED" /\ Post.status = "FREE" /\ Post.unblocked_at = last.at)
           /\ ~(last.pre.status = "FREE" /\ Post.status = "BLOCKED")

\* C8 witness: a repeat call by a FREE subject whose window is full is allowed and changes nothing.
C8_Witness ==
    /\ External /\ ~NewResource
    /\ last.pre.status = "FREE"
    /\ PreWindow >= PreLimit
    /\ last.allowed
    /\ NothingLogged
    /\ Post = last.pre

\* C9: every access_control call for an identity whose email ends in
\* @daloopa.com is allowed.
C9_InternalAlwaysAllowed ==
    (IsAccess /\ last.email \in InternalEmails)
        => last.allowed /\ last.message = MsgInternal

\* C9 witness: an internal identity is allowed, nothing is logged and its row is unchanged.
C9_Witness ==
    /\ IsAccess /\ last.email \in InternalEmails
    /\ last.allowed
    /\ NothingLogged
    /\ Post = last.pre

\* C10: while a non-internal subject is BLOCKED and fewer than `days` whole days
\* have passed since unblocked_at, a call leaves the subject row and the log
\* unchanged and is denied when it names a new resource; the subject leaves
\* BLOCKED only at unblocked_at + days or later.
C10_BlockedStaysBlocked ==
    /\ (External /\ last.pre.status = "BLOCKED" /\ ~DueForUnblock)
          => /\ Post = last.pre
             /\ NothingLogged
             /\ (NewResource =>
                    /\ ~last.allowed
                    /\ last.message \in {MsgTotal,
                                         MsgBlocked(last.pre.unblocked_at + PreDays * TicksPerDay)})
    /\ (External /\ last.pre.status = "BLOCKED" /\ Post.status # "BLOCKED") => DueForUnblock

\* C10 witness: a BLOCKED subject asks for a new resource before unblocked_at + days and is denied.
C10_Witness ==
    /\ External /\ last.pre.status = "BLOCKED" /\ ~DueForUnblock /\ NewResource
    /\ ~last.allowed
    /\ last.message = MsgBlocked(last.pre.unblocked_at + PreDays * TicksPerDay)
    /\ Post = last.pre

(***************************************************************************)
(* Authorization-code exchange: the properties.                            *)
(***************************************************************************)
IsToken == resp.op = "token"

\* how many session tokens were minted for a code
MintCount(code) == Cardinality({i \in 1..Len(minted) : minted[i].code = code})

NothingMinted == Len(minted) = resp.minted_before

\* C1: with /token requests handled one after the other, at most one request
\* per code mints a session token, and a request that presents a code an
\* earlier /token request has read fails with 400 "Invalid or expired code"
\* whatever its other parameters.
C1_CodeSingleUse ==
    /\ \A code \in Codes : MintCount(code) <= 1
    /\ (IsToken /\ resp.req.code \in resp.redeemed_before)
          => /\ resp.out = HTTPException(400, "Invalid or expired code")
             /\ NothingMinted

\* C1 witness: a code that was exchanged for a token is presented again and refused.
C1_Witness ==
    /\ IsToken
    /\ resp.req.code \in resp.redeemed_before
    /\ MintCount(resp.req.code) = 1
    /\ resp.out = HTTPException(400, "Invalid or expired code")

\* C2: of the /token requests that server processes handle concurrently for
\* the same code, at most one mints a session token.
C2_ConcurrentRedemptionExclusive ==
    \A code \in Codes : MintCount(code) <= 1

\* SHA-256 of a verifier, base64url-encoded without padding (RFC 7636, S256)
S256 ==
    [code_verifier \in {"v1", "v2"} |-> IF code_verifier = "v1" THEN "D1" ELSE "D2"]

VerifierMismatch ==
    /\ IsToken
    /\ resp.data # Nil
    /\ resp.req.code_verifier \in DOMAIN S256
    /\ resp.data.code_challenge # S256[resp.req.code_verifier]

ClientChecksPass ==
    /\ resp.data.client_id = resp.req.client_id
    /\ resp.req.client_secret # None
          => \E i \in 1..Len(oauth_user_mcp) :
             /\ oauth_user_mcp[i].client_id = resp.req.client_id
             /\ oauth_user_mcp[i].client_secret = resp.req.client_secret

WasStored == IsToken /\ resp.req.code <= issued

\* the seconds between the SETEX of that code and the /token request
CodeAge == resp.at - (expires_at[resp.req.code] - expires_in)

InvalidGrant == HTTPException(400, "Invalid or expired code")

\* C11: a /token request presenting a code that was stored more than 600
\* seconds before fails with "Invalid or expired code" and mints nothing,
\* also when the code was never read before.
C11_ExpiredCodeRejected ==
    (WasStored /\ CodeAge > 600)
        => /\ resp.out = InvalidGrant
           /\ NothingMinted

\* C11 witness: a stored code that no request has read is presented after
\* more than 600 seconds and is refused.
C11_Witness ==
    /\ WasStored
    /\ CodeAge > 600
    /\ resp.req.code \notin resp.redeemed_before
    /\ resp.out = InvalidGrant

(***************************************************************************)
(* The gate in front of the tools.                                         *)
(***************************************************************************)
IsDispatch == gate.op = "dispatch"

ProtectedPaths == {"/mcp", "/mcp/", "/sse", "/server/mcp", "/server/mcp/", "/server/sse"}

OnProtectedPath == IsDispatch /\ gate.request.path \in ProtectedPaths

NoCredentials == gate.request.authorization = None

AuthScheme == split(gate.request.authorization)[1]

BasicPair == b64decode(split(gate.request.authorization)[2])

\* the request carries credentials that do not validate: a bearer token that
\* does not verify, Basic credentials that do not decode to key:secret, or
\* an unknown scheme
CredentialsDoNotValidate ==
    /\ ~NoCredentials
    /\ CASE AuthScheme = "Bearer" -> get_user_from_request(gate.request) = Nil
         [] AuthScheme = "Basic" -> BasicPair.raised \/ find(BasicPair.value, ":", 1) = 0
         [] OTHER -> TRUE

ValidBearer == get_user_from_request(gate.request) # Nil

HoldsGatePermission == has_mcp_access(get_user_from_request(gate.request).sub)

\* C13: a request on a protected path is forwarded exactly when it carries a
\* bearer token that verifies and whose subject holds has_mcp_access; with a
\* valid token and no permission it gets 403.
C13_ForwardedIffBearerWithPermission ==
    OnProtectedPath =>
        /\ gate.out.forwarded <=> (ValidBearer /\ HoldsGatePermission)
        /\ (ValidBearer /\ ~HoldsGatePermission) => gate.out.status = 403

C15_MintedSubjectsHoldGate ==
    \A i \in 1..Len(minted) : has_mcp_access(minted[i].access_token.sub)

(***************************************************************************)
(* Creation of the subjects.                                               *)
(***************************************************************************)
IsGetOrCreate == last.op = "get_or_create_mcp_user"

RowCount == Cardinality({e \in Emails : mcp_user[e] # NoRow})

UpperCased == [trial |-> "TRIAL", enterprise |-> "ENTERPRISE"]

\* C16: get_or_create_mcp_user returns an existing row as it is and changes
\* nothing, whatever tier is passed; without a row it creates exactly one,
\* with status FREE, the tier upper-cased, the lifetime limit of that tier,
\* and unblocked_at = blocked_at = the creation time, and returns it.
C16_GetOrCreateIdempotent ==
    IsGetOrCreate =>
        IF last.pre # NoRow
        THEN /\ last.ret = last.pre
             /\ Post = last.pre
             /\ RowCount = last.pre_rows
        ELSE /\ last.ret = Post
             /\ RowCount = last.pre_rows + 1
             /\ Post.email = last.email
             /\ Post.status = "FREE"
             /\ Post.tier = UpperCased[last.tier]
             /\ Post.total_limit = TIER_TOTAL_LIMITS[Post.tier]
             /\ Post.created_at = last.at
             /\ Post.unblocked_at = last.at
             /\ Post.blocked_at = last.at

\* C16 witness: the call names an existing subject that is BLOCKED and was
\* created with another tier, and returns that row.
C16_Witness ==
    /\ IsGetOrCreate
    /\ last.pre # NoRow
    /\ last.pre.status = "BLOCKED"
    /\ last.pre.tier # UpperCased[last.tier]
    /\ last.ret = last.pre

RowsWithEmail(email) == {i \in 1..Len(mcp_user_rows) : mcp_user_rows[i].email = email}

\* C17: the table holds at most one row per email, whatever the interleaving
\* of concurrent get_or_create_mcp_user calls.
C17_OneRowPerEmail ==
    \A email \in Emails : Cardinality(RowsWithEmail(email)) <= 1

\* C17 witness: two calls for one email both found no row; one committed its
\* row and the commit of the other was refused.
C17_Witness ==
    \E p \in Procs, q \in Procs :
        /\ p # q
        /\ call[p].pc = "return"
        /\ call[q].pc = "return"
        /\ call[p].email = call[q].email
        /\ call[p].user # NoRow
        /\ call[q].user = NoRow
        /\ Cardinality(RowsWithEmail(call[p].email)) = 1

\* C18: every get_or_create_mcp_user call returns a row, also the call that
\* lost the race for the insert.
C18_RaceLoserGetsRow ==
    \A p \in Procs : call[p].pc = "return" => call[p].user # NoRow

(***************************************************************************)
(* Concurrent access_control calls.                                        *)
(***************************************************************************)
\* two activity rows of one subject for one resource
DoubleLogged ==
    \E i \in 1..Len(mcp_user_activity), j \in 1..Len(mcp_user_activity) :
        /\ i < j
        /\ mcp_user_activity[i].user_id = mcp_user_activity[j].user_id
        /\ mcp_user_activity[i].accessed_company = mcp_user_activity[j].accessed_company

\* a call committed _block_user on a row that was BLOCKED already
BlockedTwice ==
    \E p \in Procs :
        /\ call[p].pc = "return"
        /\ "blocked_over" \in DOMAIN call[p]
        /\ call[p].blocked_over = "BLOCKED"

\* C19: under concurrent access_control calls for one subject, no resource is
\* logged twice for the subject and only one call moves the subject from FREE
\* to BLOCKED.
C19_NoDoubleLogNoDoubleBlock == ~DoubleLogged /\ ~BlockedTwice

\* C20: the distinct resources in the log of a non-internal subject never
\* exceed the subject's total_limit, also under concurrent access_control.
C20_DistinctWithinTotalLimit ==
    \A email \in Emails \ InternalEmails :
        mcp_user[email] # NoRow =>
            Cardinality(Seen(mcp_user_activity, mcp_user[email].id))
                <= mcp_user[email].total_limit

(***************************************************************************)
(* The rolling window of the quota.                                        *)
(***************************************************************************)
\* the distinct resources first granted to a subject in the `days` before now
\* (only a first grant is logged)
RollingGrants(email) ==
    LET user == mcp_user[email]
    IN  {mcp_user_activity[i].accessed_company :
            i \in {j \in RowsOf(mcp_user_activity, user.id) :
                     mcp_user_activity[j].timestamp
                        >= now - TIER_TIME_LIMITS[user.tier].days * TicksPerDay}}

\* C21 as stated: for every non-internal subject and every instant, the
\* distinct resources first granted in the rolling interval [t - days, t]
\* never exceed the window limit of the tier, also through a block and an
\* auto-unblock.
C21_RollingWindowBound ==
    \A email \in Emails \ InternalEmails :
        mcp_user[email] # NoRow =>
            Cardinality(RollingGrants(email))
                <= TIER_TIME_LIMITS[mcp_user[email].tier].limit

\* C21: for every non-internal subject and every instant, the distinct
\* resources first granted in the interval [max(unblocked_at, t - days), t]
\* never exceed the window limit of the tier, also through a block and an
\* auto-unblock (which moves unblocked_at to the time of the unblocking call).
C21_WindowBound ==
    \A email \in Emails \ InternalEmails :
        mcp_user[email] # NoRow =>
            Cardinality(InWindow(mcp_user_activity, mcp_user[email], now))
                <= TIER_TIME_LIMITS[mcp_user[email].tier].limit

\* C21 witness: a subject that was blocked and auto-unblocked holds a grant in
\* its new window and more grants than the limit in the last `days`.
C21_Witness ==
    \E email \in Emails \ InternalEmails :
        /\ mcp_user[email] # NoRow
        /\ mcp_user[email].status = "FREE"
        /\ mcp_user[email].unblocked_at > mcp_user[email].created_at
        /\ InWindow(mcp_user_activity, mcp_user[email], now) # {}
        /\ Cardinality(RollingGrants(email)) > TIER_TIME_LIMITS[mcp_user[email].tier].limit

(***************************************************************************)
(* The quota state machine has no terminal state.                          *)
(***************************************************************************)
Blocked(email) == mcp_user[email] # NoRow /\ mcp_user[email].status = "BLOCKED"

Active(email) == mcp_user[email] # NoRow /\ mcp_user[email].status = "FREE"

\* the first instant at which a call unblocks the subject
DueAt(email) ==
    mcp_user[email].unblocked_at
        + TIER_TIME_LIMITS[mcp_user[email].tier].days * TicksPerDay

\* C22: a BLOCKED subject for which access_control keeps being called while
\* time advances eventually becomes ACTIVE (FREE) again; no reachable state
\* leaves it BLOCKED forever.  (The clock of the model ends at MaxTime: the
\* subject is followed while calls at or after its unblock time remain.)
C22_BlockedEventuallyActive ==
    \A email \in Emails \ InternalEmails :
        [](   (Blocked(email) /\ now < MaxTime /\ DueAt(email) <= MaxTime)
           => <>Active(email))

\* C22 witness: a call found the subject BLOCKED and left it ACTIVE.
C22_Witness ==
    /\ External /\ last.pre.status = "BLOCKED"
    /\ Active(last.email)
    /\ Post.unblocked_at = last.at
    /\ Post.unblocked_at > last.pre.blocked_at

(***************************************************************************)
(* The checks of /token on the client, its secret and the PKCE verifier.   *)
(***************************************************************************)
\* the latest /token request minted a session token for its code
MintedNow ==
    /\ resp.out.status = 200
    /\ Len(minted) = resp.minted_before + 1
    /\ minted[Len(minted)].code = resp.req.code

\* the code of the latest /token request is in the store: /login stored it,
\* no more than 600 seconds passed, and no /token request has read it
Redeemable ==
    /\ WasStored
    /\ CodeAge <= 600
    /\ resp.req.code \notin resp.redeemed_before

\* C23: a /token request that supplies neither client_secret nor
\* code_verifier mints a token whenever its code is stored, unexpired and
\* unredeemed and its client_id is the client_id bound to the code.
C23_NeitherSecretNorVerifierSucceeds ==
    (Redeemable /\ resp.req.client_secret = None /\ resp.req.code_verifier = None)
        => /\ resp.data # Nil
           /\ resp.data.client_id = resp.req.client_id => MintedNow

\* C23 witness: a code stored with a challenge is exchanged by a request
\* without client_secret and without code_verifier.
C23_Witness ==
    /\ Redeemable
    /\ resp.req.client_secret = None /\ resp.req.code_verifier = None
    /\ resp.data # Nil
    /\ resp.data.client_id = resp.req.client_id
    /\ "code_challenge" \in DOMAIN resp.data
    /\ MintedNow

\* the latest /token request proved possession of the verifier of the code
ProvedPossession ==
    /\ resp.req.code_verifier \in DOMAIN S256
    /\ S256[resp.req.code_verifier] = resp.data.code_challenge

\* C24: a code issued with a code_challenge is exchanged for a session token
\* only by a /token request whose code_verifier hashes (S256) to that
\* challenge.
C24_TokenOnlyWithVerifier ==
    (IsToken /\ resp.out.status = 200 /\ "code_challenge" \in DOMAIN resp.data)
        => ProvedPossession

\* the three checks of /token, as the claim states them
ClientMatches == resp.data.client_id = resp.req.client_id

SecretAccepted ==
    resp.req.client_secret # None
        => \E i \in 1..Len(oauth_user_mcp) :
           /\ oauth_user_mcp[i].client_id = resp.req.client_id
           /\ oauth_user_mcp[i].client_secret = resp.req.client_secret

VerifierAccepted == resp.req.code_verifier # None => ProvedPossession

\* C25: for a code found in the store, /token mints a token only if the
\* client_id is the bound one, the client_secret (when supplied) is the
\* registered one and the code_verifier (when supplied) matches the stored
\* challenge; a failing check is answered with its own error, whatever the
\* other checks would say.
C25_ChecksIndependent ==
    (IsToken /\ resp.data # Nil)
        => /\ resp.out.status = 200 <=> (ClientMatches /\ SecretAccepted /\ VerifierAccepted)
           /\ resp.out.status = 200 => MintedNow
           /\ resp.out.status # 200 => NothingMinted
           /\ ~ClientMatches
                 => resp.out = HTTPException(400, "Mismatched redirect_uri or client_id")
           /\ (ClientMatches /\ ~SecretAccepted)
                 => resp.out = HTTPException(401, "Invalid client credentials")
           /\ (ClientMatches /\ SecretAccepted /\ ~VerifierAccepted)
                 => resp.out = HTTPException(400, "PKCE verification failed")

\* C25 witness: a request with the bound client_id and the registered
\* client_secret is refused for its verifier alone.
C25_Witness ==
    /\ IsToken /\ resp.data # Nil
    /\ ClientMatches
    /\ resp.req.client_secret # None /\ SecretAccepted
    /\ resp.req.code_verifier # None /\ ~VerifierAccepted
    /\ resp.out = HTTPException(400, "PKCE verification failed")
    /\ NothingMinted

(***************************************************************************)
(* Verification of session tokens.                                         *)
(***************************************************************************)
IsVerify == last.op = "get_user_from_request"

\* the minted tokens the latest verified header carries as "Bearer <token>"
Presented == {k \in 1..Len(minted) : last.authorization = "Bearer " \o jwt_encode(k)}

IsLogin == resp.op = "login"

KnownClient ==
    \E i \in 1..Len(oauth_user_mcp) : oauth_user_mcp[i].client_id = resp.req.client_id

UnknownEmail == \A u \in users : u.email # resp.req.email

WrongPassword ==
    \E u \in users : u.email = resp.req.email /\ u.password # pbkdf2(resp.req.password)

\* the login view rendered again with the generic message
IncorrectCredentialsView == [status |-> 200, detail |-> "Incorrect email or password"]

\* C28: for a known client, /login for an email that matches no user and
\* /login for an existing user with a wrong password have the same outcome:
\* the login view with "Incorrect email or password", and no code stored.
C28_UnknownEmailLikeWrongPassword ==
    (IsLogin /\ KnownClient /\ (UnknownEmail \/ WrongPassword))
        => /\ resp.out = IncorrectCredentialsView
           /\ issued = resp.issued_before

\* C28 witness: an email that matches no user, with the password of the
\* existing users, gets the generic message.
C28_Witness ==
    /\ IsLogin /\ KnownClient /\ UnknownEmail
    /\ resp.req.password = "pw"
    /\ resp.out = IncorrectCredentialsView
    /\ issued = resp.issued_before

(***************************************************************************)
(* The claims of a session token and the permission of its subject.        *)
(***************************************************************************)
\* the tier get_user_tier resolves for the subject of the code now
TierNow == get_user_tier(resp.data.user_email)

\* C26: the session token /token mints carries the email, the tier and the
\* origin stored with the code by /login (the origin being the name of the
\* client that ran the login) and the expiry; the tier is not resolved again
\* at the exchange.
C26_TokenCarriesBoundClaims ==
    (IsToken /\ resp.out.status = 200)
        => /\ resp.out.access_token.sub = resp.data.user_email
           /\ resp.out.access_token.tier = resp.data.user_tier
           /\ resp.out.access_token.origin = resp.data.origin
           /\ DOMAIN resp.out.access_token = {"sub", "tier", "origin", "exp"}
           /\ \E i \in 1..Len(oauth_user_mcp) :
                 /\ oauth_user_mcp[i].client_id = resp.data.client_id
                 /\ oauth_user_mcp[i].client_name = resp.out.access_token.origin

\* C26 witness: the groups of the subject changed between /login and /token,
\* and the token carries the tier of the login.
C26_Witness ==
    /\ IsToken /\ resp.out.status = 200
    /\ ~TierNow.raised
    /\ TierNow.tier # resp.data.user_tier
    /\ resp.out.access_token.tier = resp.data.user_tier

\* a user with this email exists, is active and holds the permission
HoldsGrant(email) ==
    \E u \in users : /\ u.email = email
                     /\ u.is_active = TRUE
                     /\ \E codename \in u.permissions : codename = "has_mcp_access"

\* C30: has_mcp_access(email) is true exactly when a user with that email
\* exists, is active and holds the permission has_mcp_access now: false for
\* an unknown email, true once the grant is added, false once it is removed.
C30_AccessReflectsGrant ==
    /\ \A email \in LoginEmails : has_mcp_access(email) <=> HoldsGrant(email)
    /\ \A email \in LoginEmails : (\A u \in users : u.email # email) => ~has_mcp_access(email)
    /\ last.op = "add_user_permission"
          => (has_mcp_access(last.email) <=> \E u \in users : u.email = last.email /\ u.is_active)
    /\ last.op = "delete_user_permission" => ~has_mcp_access(last.email)

\* C30 witness: an active user that held the grant lost it, and the query
\* says no.
C30_Witness ==
    /\ last.op = "delete_user_permission"
    /\ last.had
    /\ ~has_mcp_access(last.email)

(***************************************************************************)
(* Registered OAuth clients.                                               *)
(***************************************************************************)
IsRegister == resp.op = "register"

\* the client_id /register generated was that of a row of the table
Collided ==
    \E i \in 1..Len(resp.rows_before) : resp.rows_before[i].client_id = resp.client_id

\* C29: no two rows of oauth_user_mcp share a client_id, and a /register
\* call whose generated client_id is that of an existing client fails with
\* 400 "Client already exists" and stores no row.
C29_ClientIdUnique ==
    /\ \A i \in 1..Len(oauth_user_mcp), j \in 1..Len(oauth_user_mcp) :
          i # j => oauth_user_mcp[i].client_id # oauth_user_mcp[j].client_id
    /\ (IsRegister /\ Collided)
          => /\ resp.out = HTTPException(400, "Client already exists")
             /\ oauth_user_mcp = resp.rows_before

(***************************************************************************)
(* retry_with_backoff (C31, C32)                                           *)
(***************************************************************************)
Succeeded == retry.calls > 0 /\ ~retry.result.raised
ToBeRetried == retry.result.status_code \in retry.cfg.retry_status_codes
Returned == retry.pc = "done" /\ retry.outcome = "return" /\ retry.response = retry.result

RECURSIVE Pow2(_)
Pow2(k) == IF k = 0 THEN 1 ELSE 2 * Pow2(k - 1)

Capped(seconds, cap) == IF seconds > cap THEN cap ELSE seconds

Ending ==
    \/ retry.outcome = "return" /\ Succeeded
    \/ /\ retry.outcome = "TimeoutError"
       /\ retry.cfg.timeout # 0
       /\ retry.elapsed_time + retry.total_backoff_time > retry.cfg.timeout
    \/ /\ retry.outcome = "raise e"
       /\ retry.result.raised
       /\ retry.calls = retry.cfg.max_retries
    \/ /\ retry.outcome = "Exception: Exceeded max retries"
       /\ retry.calls = retry.cfg.max_retries

\* C31: as soon as a call of func returns without raising a response whose
\* status is not one of retry_status_codes, whatever the two lists are (both
\* left at None included), the run has ended by returning that response, so
\* func is not called again.
C31_SuccessReturnedAtOnce ==
    (Succeeded /\ ~ToBeRetried) => Returned

\* C32: a run calls func at most max_retries times and ends; it ends by
\* returning a response, by TimeoutError when the elapsed time plus the next
\* backoff exceeds the timeout, by re-raising the exception of call number
\* max_retries, or by the "Exceeded max retries" exception; and the backoff
\* taken when retries = k, the one that precedes the call made with
\* retries = k + 1, is min(backoff_factor * 2^k, max_backoff) plus the jitter.
C32_TerminatesWithinMaxRetries ==
    /\ [](retry.calls <= retry.cfg.max_retries)
    /\ [](retry.pc = "done" => Ending)
    /\ [](retry.total_backoff_time > 0 =>
            retry.total_backoff_time =
                Capped(retry.cfg.backoff_factor * Pow2(retry.slept_at), retry.cfg.max_backoff)
                + retry.jitter)
    /\ (retry.pc # "idle") ~> (retry.pc = "done")

C32_Witness ==
    /\ retry.pc = "done"
    /\ retry.outcome = "Exception: Exceeded max retries"
    /\ retry.calls = MaxRetries
    /\ retry.slept_at = MaxRetries - 1
    /\ retry.backoff_time = retry.cfg.max_backoff
    /\ retry.backoff_time < retry.cfg.backoff_factor * Pow2(retry.slept_at)

\* C33: a /token request whose redirect_uri differs from the one /login bound
\* to the code, or whose client_id differs from the bound one, is answered
\* 400 "Mismatched redirect_uri or client_id", and a token is minted only
\* when both match.
C33_RedirectUriAndClientBound ==
    (IsToken /\ resp.data # Nil) =>
        /\ (resp.data.redirect_uri # resp.req.redirect_uri \/ resp.data.client_id # resp.req.client_id)
              => (resp.out.status = 400 /\ resp.out.detail = "Mismatched redirect_uri or client_id")
        /\ resp.out.status = 200
              => (resp.data.redirect_uri = resp.req.redirect_uri /\ resp.data.client_id = resp.req.client_id)

(***************************************************************************)
(* Tier resolution (C34) and the code of a failed exchange (C36)           *)
(***************************************************************************)
Tiers == {"trial", "student", "free", default_tier}

ResolvesTier(email) ==
    LET tier == get_user_tier(email)
    IN  ~tier.raised /\ tier.tier \in Tiers

IsApiKeyToken == resp.op = "api_key_token"
KnownKey == \E k \in APIKeys : k.token = resp.req.api_key

\* C34: get_user_tier returns a tier for every existing user, the default one
\* for a user in no "user_type:" group, so that a /login that passed the
\* client, password and access checks answers with the redirect and the
\* exchange of a known API key answers with a token.
C34_TierResolutionTotal ==
    /\ (IsLogin /\ KnownClient /\ validate_password(resp.req.email, resp.req.password)
            /\ has_mcp_access(resp.req.email))
          => (ResolvesTier(resp.req.email) /\ resp.out.status = 302)
    /\ (IsApiKeyToken /\ KnownKey)
          => (resp.out.status = 200 /\ resp.out.access_token.tier \in Tiers)

FailedCheck == IsToken /\ resp.data # Nil /\ resp.out.status # 200

FullyCorrect ==
    /\ resp.req.client_id = "cid1"
    /\ resp.req.client_secret \in {None, "sec1"}
    /\ resp.req.code_verifier = "v1"

\* C36: a /token request that found the code and then failed the client_id,
\* client_secret or PKCE check has consumed it: the code is gone from the
\* store, a later /token request with that code, however correct, is
\* answered 400 "Invalid or expired code", and no token is ever minted for
\* the code.
C36_FailedExchangeConsumesCode ==
    /\ [](FailedCheck =>
            /\ redis[resp.req.code] = Nil
            /\ resp.req.code \in redeemed
            /\ MintCount(resp.req.code) = 0)
    /\ []((IsToken /\ resp.req.code \in resp.redeemed_before) =>
            (resp.out = InvalidGrant /\ NothingMinted))
    /\ [][\A code \in Codes :
            (code \in redeemed /\ MintCount(code) = 0) => MintCount(code)' = 0]_vars

C36_Witness ==
    /\ IsToken
    /\ resp.req.code \in resp.redeemed_before
    /\ MintCount(resp.req.code) = 0
    /\ FullyCorrect
    /\ resp.out = InvalidGrant

(***************************************************************************)
(* The date range of list_calls (C35)                                      *)
(***************************************************************************)
IsServerListCalls == tool.op = "gong_server.list_calls"
ToolArgs == [fromDateTime |-> tool.args[1], toDateTime |-> tool.args[2]]

\* C35: list_calls of the standalone server called with from_datetime and
\* to_datetime both omitted passes the validation of its arguments, queries
\* the Gong API with no date filter and returns the JSON of the answer; and
\* the standalone server accepts the argument combinations the gateway tool
\* accepts.
C35_DateRangeOptional ==
    IsServerListCalls =>
        /\ (tool.args = <<None, None>> /\ tool.api = "ok")
              => /\ tool.out.upstream
                 /\ tool.out.params = {}
                 /\ tool.out.text = json_dumps(GongCalls)
        /\ gong_server_is_gong_list_calls_args(ToolArgs) = is_gong_list_calls_args(ToolArgs)

(***************************************************************************)
(* The lifetime cap once reached (C37) and the subject row (C38)           *)
(***************************************************************************)
ExternalEmails == Emails \ InternalEmails

\* the subject has a row and its log holds total_limit distinct resources
AtCap(email) ==
    /\ mcp_user[email] # NoRow
    /\ Cardinality(Seen(mcp_user_activity, mcp_user[email].id)) >= mcp_user[email].total_limit

\* C37: once the log of a non-internal subject holds total_limit distinct
\* resources, every access_control call for it, for a new or a logged
\* resource, in any status and at any later time, is denied with "Total
\* limit reached for the user." and leaves the row and the log as they were;
\* the subject stays at the cap in every later state.
C37_TotalLimitAbsorbing ==
    /\ []((External /\ PreTotal >= last.pre.total_limit) =>
            /\ ~last.allowed
            /\ last.message = MsgTotal
            /\ Post = last.pre
            /\ NothingLogged)
    /\ [][\A email \in ExternalEmails :
            AtCap(email) =>
                /\ mcp_user'[email] = mcp_user[email]
                /\ RowsOf(mcp_user_activity', mcp_user[email].id)
                      = RowsOf(mcp_user_activity, mcp_user[email].id)
                /\ (last'.op = "access_control" /\ last'.email = email)
                      => (~last'.allowed /\ last'.message = MsgTotal)]_vars

\* C37 witness: a call for a resource already logged, made `days` or more
\* after unblocked_at by a subject at its cap, is denied for the lifetime limit.
C37_Witness ==
    /\ External /\ ~NewResource
    /\ PreTotal >= last.pre.total_limit
    /\ DueForUnblock
    /\ ~last.allowed /\ last.message = MsgTotal
    /\ Post = last.pre

Blocks == External /\ last.pre.status = "FREE" /\ Post.status = "BLOCKED"
Unblocks == External /\ last.pre.status = "BLOCKED" /\ Post.status = "FREE"

\* C38: every subject row has status FREE (ACTIVE) or BLOCKED, with
\* blocked_at >= unblocked_at when BLOCKED and unblocked_at >= blocked_at when
\* FREE; a call that blocks changes only status and blocked_at, a call that
\* unblocks changes only status and unblocked_at, and no access_control call
\* changes tier or total_limit.
C38_SubjectRowInvariant ==
    /\ \A email \in Emails :
          mcp_user[email] # NoRow =>
              /\ mcp_user[email].status \in {"FREE", "BLOCKED"}
              /\ mcp_user[email].status = "BLOCKED"
                    => mcp_user[email].blocked_at >= mcp_user[email].unblocked_at
              /\ mcp_user[email].status = "FREE"
                    => mcp_user[email].unblocked_at >= mcp_user[email].blocked_at
    /\ Blocks => Post = [last.pre EXCEPT !.status = "BLOCKED", !.blocked_at = last.at]
    /\ Unblocks => Post = [last.pre EXCEPT !.status = "FREE", !.unblocked_at = last.at]
    /\ IsAccess => (Post.tier = last.pre.tier /\ Post.total_limit = last.pre.total_limit)
    /\ (IsAccess /\ Post.status = last.pre.status) => Post = last.pre

\* C38 witness: a subject blocked after its creation is unblocked by a later call.
C38_Witness ==
    /\ Unblocks
    /\ Post.unblocked_at > Post.blocked_at
    /\ Post.blocked_at > Post.created_at
    /\ Post.tier = last.pre.tier

====
